---- MODULE Spec2Model ----
(***************************************************************************)
(* Typecast registry of PyGreSQL 5.0: the classic module (pg.py:          *)
(* Typecasts, DbTypes) and the DB-API module (pgdb.py: Typecasts,         *)
(* LocalTypecasts, TypeCache).                                             *)
(*                                                                         *)
(* A type name is a sequence of tokens: 'int4' is <<"int4">> and '_int4'  *)
(* is <<"_", "int4">>, so that typ.startswith('_'), typ[1:] and           *)
(* '_%s' % typ are Head, Tail and concatenation.                          *)
(* A cast function is a record: a named function, a functools.partial     *)
(* that binds the connection, the closure made by create_array_cast, or   *)
(* the closure made by create_record_cast.  Two casts are the same        *)
(* function object iff the records are equal.                             *)
(***************************************************************************)
EXTENDS Integers, Sequences, FiniteSets, TLC

\* ------------------------------------------------------------------ bounds
\* calls made in one run
MaxCalls == 3

\* ------------------------------------------------------------ cast values
None == [kind |-> "None"]
Fn(n) == [kind |-> "fn", name |-> n]
Partial(n, c) == [kind |-> "partial", name |-> n, connection |-> c]
ArrayCast(basecast) == [kind |-> "array", basecast |-> basecast]
RecordCast(name, casts) == [kind |-> "record", name |-> name, casts |-> casts]

\* the connections open at the same time; a registry that belongs to no
\* connection (the class, the global object) has connection None
Conns == {"con1", "con2"}
NoConnection == "None"

\* functions whose signature has a 'connection' argument after the first
NeedsConnectionNames == {"fc", "cast_date"}

\* casts a caller passes to set_typecast: f(value), fc(value, connection)
UserCasts == {Fn("f"), Fn("fc")}

BaseNames == {"int4", "circle", "person"}

\* ------------------------------------------------------------- type names
\* the base types that have an array type among the names
ArrayBaseNames == {"int4", "circle"}

\* the names the calls are made with
TypeNames == {<<b>> : b \in BaseNames} \cup {<<"_", b>> : b \in ArrayBaseNames}

startswith_(typ) == Head(typ) = "_"

\* ------------------------------------------------------------- dicts
EmptyDict == [k \in {} |-> None]
DictGet(d, k) == IF k \in DOMAIN d THEN d[k] ELSE None
SetItem(d, k, v) == [x \in DOMAIN d \cup {k} |-> IF x = k THEN v ELSE d[x]]
Pop(d, k) == [x \in DOMAIN d \ {k} |-> d[x]]
Update(d, e) == [x \in DOMAIN d \cup DOMAIN e |-> IF x \in DOMAIN e THEN e[x] ELSE d[x]]

\* the default cast functions of the class attribute Typecasts.defaults
ClassDefaults == (<<"int4">> :> Fn("int")) @@ (<<"date">> :> Fn("cast_date"))

\* composite types of the catalog: the type of each field, in attnum order;
\* every other name has no fields
CompositeFields(typ) == IF typ = <<"person">> THEN << <<"int4">>, <<"circle">> >> ELSE << >>

\* DbTypes.get_attnames (pg) and TypeCache.get_fields (pgdb) report the
\* fields of a composite type and nothing for any other type
get_attnames(typ) == CompositeFields(typ)
get_fields(typ) == CompositeFields(typ)

_needs_connection(cast) == cast.kind = "fn" /\ cast.name \in NeedsConnectionNames

\* a faulty variant of _add_connection that never binds the connection;
\* C1 tells it from the code's
_add_connection_never(connection, cast) == cast

_add_connection(connection, cast) ==
    IF connection = NoConnection \/ ~ _needs_connection(cast)
    THEN cast
    ELSE Partial(cast.name, connection)

create_array_cast(basecast) == ArrayCast(basecast)
create_record_cast(name, casts) == RecordCast(name, casts)

\* api       which module the program uses: "pg" or "pgdb"
\* defaults  the process-wide tier: Typecasts.defaults (pg), or the global
\*           registry object _typecasts = LocalTypecasts.defaults (pgdb)
\* typecasts the registry of each connection (DbTypes._typecasts,
\*           TypeCache._typecasts)
\* last      history: the record of the call that ended the run
\* calls     the number of calls made so far
VARIABLES api, defaults, typecasts, last, calls

\* the type cache of one connection (DbTypes / TypeCache): the dict, the
\* identity the next descriptor object gets, and the descriptor each key
\* returned since the cache was last cleared
VARIABLES dbtypes, nextid, returned
types_vars == <<dbtypes, nextid, returned>>

\* the threads that call the module functions of the process-wide tier:
\* the call each one is in, its position in it and its local variable cast
VARIABLES threads
thread_vars == <<threads>>

\* the state the typecast calls leave alone
\* the call of a function without state in progress: its arguments and,
\* once it has returned or raised, its result
VARIABLES args, result
pure_vars == <<args, result>>

\* the objects of one connection outside the registries: the resolution of
\* a composite type's cast that is under way, the pg.DB wrapper, the pgdb
\* Connection with its cursors, and the pg.NotificationHandler
VARIABLES resolving, db, cnx, handler
ext_vars == <<resolving, db, cnx, handler>>

aux_vars == <<types_vars, thread_vars, pure_vars, ext_vars>>

vars == <<api, defaults, typecasts, last, calls, aux_vars>>

\* ------------------------------------------------ pg.Typecasts (classic)
\* a lookup returns the cast, the registry after the lookup and the number
\* of get_attnames calls it made
RECURSIVE Typecasts_getitem(_, _, _, _)
RECURSIVE Typecasts_missing(_, _, _, _)
RECURSIVE Typecasts_getitems(_, _, _, _)

\* a faulty variant of self[typ] that does not read the cached entry and
\* resolves typ again on every lookup; C10 tells it from the code's
Typecasts_getitem_uncached(self, dflt, connection, typ) ==
    Typecasts_missing(self, dflt, connection, typ)

\* self[typ]: dict lookup, __missing__ when the key is absent
Typecasts_getitem(self, dflt, connection, typ) ==
    IF typ \in DOMAIN self
    THEN [cast |-> self[typ], self |-> self, lookups |-> 0]
    ELSE Typecasts_missing(self, dflt, connection, typ)

\* [self[v.pgtype] for v in attnames.values()]
Typecasts_getitems(self, dflt, connection, typs) ==
    IF typs = << >>
    THEN [casts |-> << >>, self |-> self, lookups |-> 0]
    ELSE LET h == Typecasts_getitem(self, dflt, connection, Head(typs))
             r == Typecasts_getitems(h.self, dflt, connection, Tail(typs))
         IN [casts |-> <<h.cast>> \o r.casts, self |-> r.self,
             lookups |-> h.lookups + r.lookups]

\* a faulty variant of __missing__ that stores the 'no cast' result of a
\* type without fields; C6 tells it from the code's
Typecasts_missing_caching_none(self, dflt, connection, typ) ==
    LET cast == DictGet(dflt, typ) IN
    IF cast # None
    THEN LET bound == _add_connection(connection, cast)
         IN [cast |-> bound, self |-> SetItem(self, typ, bound), lookups |-> 0]
    ELSE IF startswith_(typ)
    THEN LET b == Typecasts_getitem(self, dflt, connection, Tail(typ))
             acast == create_array_cast(b.cast)
         IN [cast |-> acast,
             self |-> IF b.cast # None THEN SetItem(b.self, typ, acast) ELSE b.self,
             lookups |-> b.lookups]
    ELSE LET attnames == get_attnames(typ) IN
         IF attnames # << >>
         THEN LET r == Typecasts_getitems(self, dflt, connection, attnames)
                  rcast == create_record_cast(typ, r.casts)
              IN [cast |-> rcast, self |-> SetItem(r.self, typ, rcast),
                  lookups |-> 1 + r.lookups]
         ELSE [cast |-> cast, self |-> SetItem(self, typ, cast), lookups |-> 1]

\* __missing__: global default, else array cast, else record cast, else None
Typecasts_missing(self, dflt, connection, typ) ==
    LET cast == DictGet(dflt, typ) IN
    IF cast # None
    THEN LET bound == _add_connection(connection, cast)
         IN [cast |-> bound, self |-> SetItem(self, typ, bound), lookups |-> 0]
    ELSE IF startswith_(typ)
    THEN LET b == Typecasts_getitem(self, dflt, connection, Tail(typ))
             acast == create_array_cast(b.cast)
         IN [cast |-> acast,
             self |-> IF b.cast # None THEN SetItem(b.self, typ, acast) ELSE b.self,
             lookups |-> b.lookups]
    ELSE LET attnames == get_attnames(typ) IN
         IF attnames # << >>
         THEN LET r == Typecasts_getitems(self, dflt, connection, attnames)
                  rcast == create_record_cast(typ, r.casts)
              IN [cast |-> rcast, self |-> SetItem(r.self, typ, rcast),
                  lookups |-> 1 + r.lookups]
         ELSE [cast |-> cast, self |-> self, lookups |-> 1]

\* Typecasts.get: self[typ] or default, with default None
Typecasts_get(self, dflt, connection, typ) ==
    Typecasts_getitem(self, dflt, connection, typ)

\* a faulty variant of Typecasts.set that leaves the entry of the array
\* type in place; C3 tells it from the code's
Typecasts_set_keeping_array(self, connection, typ, cast) ==
    IF cast = None
    THEN Pop(self, typ)
    ELSE SetItem(self, typ, _add_connection(connection, cast))

\* Typecasts.set for one type name (a str is wrapped into a list of one)
Typecasts_set(self, connection, typ, cast) ==
    IF cast = None
    THEN Pop(Pop(self, typ), <<"_">> \o typ)
    ELSE Pop(SetItem(self, typ, _add_connection(connection, cast)), <<"_">> \o typ)

\* a faulty variant of reset(typ) that leaves the override in place; C2
\* tells it from the code's
Typecasts_reset_keeping(self, typ) == self

\* pg.Typecasts.reset(typ) for one type name
Typecasts_reset(self, typ) == Pop(self, typ)

\* pg.Typecasts.reset(): self.clear()
Typecasts_reset_all(self) == EmptyDict

\* pg.Typecasts.get_default
get_default(dflt, typ) == DictGet(dflt, typ)

\* pg.Typecasts.set_default for one type name
set_default(dflt, typ, cast) ==
    IF cast = None
    THEN Pop(Pop(dflt, typ), <<"_">> \o typ)
    ELSE Pop(SetItem(dflt, typ, cast), <<"_">> \o typ)

\* ------------------------------------------------ pgdb.Typecasts (global)
\* the global registry object _typecasts: its defaults are the class
\* attribute, its connection is None
RECURSIVE pgdb_Typecasts_getitem(_, _)
RECURSIVE pgdb_Typecasts_missing(_, _)

pgdb_Typecasts_getitem(self, typ) ==
    IF typ \in DOMAIN self
    THEN [cast |-> self[typ], self |-> self]
    ELSE pgdb_Typecasts_missing(self, typ)

pgdb_Typecasts_missing(self, typ) ==
    LET cast == DictGet(ClassDefaults, typ) IN
    IF cast # None
    THEN LET bound == _add_connection(NoConnection, cast)
         IN [cast |-> bound, self |-> SetItem(self, typ, bound)]
    ELSE IF startswith_(typ)
    THEN LET b == pgdb_Typecasts_getitem(self, Tail(typ))
             acast == create_array_cast(b.cast)
         IN [cast |-> acast,
             self |-> IF b.cast # None THEN SetItem(b.self, typ, acast) ELSE b.self]
    ELSE [cast |-> cast, self |-> self]

\* pgdb.Typecasts.reset(typ) on the global object: defaults is the class dict
pgdb_Typecasts_reset(self, typ) ==
    LET cast == DictGet(ClassDefaults, typ)
        t == <<"_">> \o typ
        acast == DictGet(ClassDefaults, t)
    IN IF cast # None
       THEN LET s1 == SetItem(self, typ, _add_connection(NoConnection, cast))
            IN IF acast # None
               THEN SetItem(s1, t, _add_connection(NoConnection, acast))
               ELSE Pop(s1, t)
       ELSE Pop(Pop(self, typ), t)

\* pgdb.Typecasts.reset() on the global object: clear, update(defaults)
pgdb_Typecasts_reset_all(self) == Update(EmptyDict, ClassDefaults)

\* -------------------------------------------------- pgdb.LocalTypecasts
\* defaults is the global object, so defaults.get(typ) is a lookup that
\* may fill the global object; a lookup returns the cast, the registry and
\* the global object after it, and the number of get_fields calls
RECURSIVE LocalTypecasts_getitem(_, _, _, _)
RECURSIVE LocalTypecasts_missing(_, _, _, _)
RECURSIVE LocalTypecasts_getitems(_, _, _, _)

LocalTypecasts_getitem(self, dflt, connection, typ) ==
    IF typ \in DOMAIN self
    THEN [cast |-> self[typ], self |-> self, defaults |-> dflt, lookups |-> 0]
    ELSE LocalTypecasts_missing(self, dflt, connection, typ)

\* [self[field.type] for field in fields]
LocalTypecasts_getitems(self, dflt, connection, typs) ==
    IF typs = << >>
    THEN [casts |-> << >>, self |-> self, defaults |-> dflt, lookups |-> 0]
    ELSE LET h == LocalTypecasts_getitem(self, dflt, connection, Head(typs))
             r == LocalTypecasts_getitems(h.self, h.defaults, connection, Tail(typs))
         IN [casts |-> <<h.cast>> \o r.casts, self |-> r.self,
             defaults |-> r.defaults, lookups |-> h.lookups + r.lookups]

LocalTypecasts_missing(self, dflt, connection, typ) ==
    IF startswith_(typ)
    THEN LET b == LocalTypecasts_getitem(self, dflt, connection, Tail(typ))
             acast == create_array_cast(b.cast)
         IN [cast |-> acast,
             self |-> IF b.cast # None THEN SetItem(b.self, typ, acast) ELSE b.self,
             defaults |-> b.defaults, lookups |-> b.lookups]
    ELSE LET g == pgdb_Typecasts_getitem(dflt, typ) IN
         IF g.cast # None
         THEN LET bound == _add_connection(connection, g.cast)
              IN [cast |-> bound, self |-> SetItem(self, typ, bound),
                  defaults |-> g.self, lookups |-> 0]
         ELSE LET fields == get_fields(typ) IN
              IF fields # << >>
              THEN LET r == LocalTypecasts_getitems(self, g.self, connection, fields)
                       rcast == create_record_cast(typ, r.casts)
                   IN [cast |-> rcast, self |-> SetItem(r.self, typ, rcast),
                       defaults |-> r.defaults, lookups |-> 1 + r.lookups]
              ELSE [cast |-> g.cast, self |-> self, defaults |-> g.self, lookups |-> 1]

\* a faulty variant of reset(typ) that also drops typ from the global
\* object; C9 tells it from the code's
LocalTypecasts_reset_shared(self, dflt, connection, typ) ==
    [self |-> Pop(Pop(self, typ), <<"_">> \o typ), defaults |-> Pop(dflt, typ)]

\* reset(typ) inherited from pgdb.Typecasts, with defaults the global object
LocalTypecasts_reset(self, dflt, connection, typ) ==
    LET g == pgdb_Typecasts_getitem(dflt, typ)
        t == <<"_">> \o typ
    IN IF g.cast # None
       THEN LET s1 == SetItem(self, typ, _add_connection(connection, g.cast))
                ga == pgdb_Typecasts_getitem(g.self, t)
            IN [self |-> IF ga.cast # None
                         THEN SetItem(s1, t, _add_connection(connection, ga.cast))
                         ELSE Pop(s1, t),
                defaults |-> ga.self]
       ELSE [self |-> Pop(Pop(self, typ), t), defaults |-> g.self]

\* reset() inherited from pgdb.Typecasts: self.clear(), self.update(defaults)
LocalTypecasts_reset_all(self, dflt) == Update(EmptyDict, dflt)

\* ------------------------------------------------------ the two modules
\* self[typ] on a connection's registry
Lookup(self, dflt, connection, typ) ==
    IF api = "pg"
    THEN LET r == Typecasts_get(self, dflt, connection, typ)
         IN [cast |-> r.cast, self |-> r.self, defaults |-> dflt, lookups |-> r.lookups]
    ELSE LocalTypecasts_getitem(self, dflt, connection, typ)

\* the cast the process-wide tier holds for typ: pg.get_typecast reads
\* Typecasts.defaults, pgdb.get_typecast looks typ up in _typecasts
GlobalLookup(dflt, typ) ==
    IF api = "pg"
    THEN [cast |-> get_default(dflt, typ), self |-> dflt]
    ELSE pgdb_Typecasts_getitem(dflt, typ)

\* the record of a call: its arguments, its result, the number of
\* get_attnames/get_fields calls it made, and the registries of the
\* connections and the process-wide tier as the call found them
Call(op, c, typ, cast, ret, lookups) ==
    [op |-> op, conn |-> c, typ |-> typ, cast |-> cast, ret |-> ret,
     lookups |-> lookups, typecasts |-> typecasts, defaults |-> defaults]

NoCall == [op |-> "none"]

\* the history variable keeps the call that ends the run
Record(call) == IF calls + 1 = MaxCalls THEN call ELSE NoCall

\* the threads of the process
Threads == {"t1", "t2"}

\* a thread that is in no call
IdleThread == [pc |-> "idle", op |-> "none", typ |-> << >>, cast |-> None, local |-> None]

ThreadsIdle == threads = [t \in Threads |-> IdleThread]

NoArgs == [fn |-> "none"]
NoResult == [kind |-> "none"]

\* no function without state has been called
PureIdle == args = NoArgs /\ result = NoResult

\* the type cache before any lookup
TypesIdle ==
    /\ dbtypes = EmptyDict
    /\ nextid = 1
    /\ returned = EmptyDict

\* no object of a connection outside the registries is in use
NotUsed == [kind |-> "none"]
ExtIdle ==
    /\ resolving = NotUsed
    /\ db = NotUsed
    /\ cnx = NotUsed
    /\ handler = NotUsed

Init ==
    /\ api \in {"pg", "pgdb"}
    /\ defaults = IF api = "pg" THEN ClassDefaults ELSE EmptyDict
    /\ typecasts = [c \in Conns |-> EmptyDict]
    /\ last = NoCall
    /\ calls = 0
    /\ TypesIdle
    /\ ThreadsIdle
    /\ ExtIdle
    /\ PureIdle

\* DbTypes.get_typecast / TypeCache.get_typecast
get_typecast(c, typ) ==
    /\ calls < MaxCalls
    /\ LET r == Lookup(typecasts[c], defaults, c, typ) IN
       /\ typecasts' = [typecasts EXCEPT ![c] = r.self]
       /\ defaults' = r.defaults
       /\ last' = Record(Call("get", c, typ, None, r.cast, r.lookups))
    /\ calls' = calls + 1
    /\ UNCHANGED api
    /\ UNCHANGED aux_vars

\* DbTypes.set_typecast / TypeCache.set_typecast
set_typecast(c, typ, cast) ==
    /\ calls < MaxCalls
    /\ typecasts' = [typecasts EXCEPT ![c] = Typecasts_set(typecasts[c], c, typ, cast)]
    /\ last' = Record(Call("set", c, typ, cast, None, 0))
    /\ calls' = calls + 1
    /\ UNCHANGED <<api, defaults>>
    /\ UNCHANGED aux_vars

\* DbTypes.reset_typecast(typ) / TypeCache.reset_typecast(typ)
reset_typecast(c, typ) ==
    /\ calls < MaxCalls
    /\ IF api = "pg"
       THEN /\ typecasts' = [typecasts EXCEPT ![c] = Typecasts_reset(typecasts[c], typ)]
            /\ UNCHANGED defaults
       ELSE LET r == LocalTypecasts_reset(typecasts[c], defaults, c, typ) IN
            /\ typecasts' = [typecasts EXCEPT ![c] = r.self]
            /\ defaults' = r.defaults
    /\ last' = Record(Call("reset", c, typ, None, None, 0))
    /\ calls' = calls + 1
    /\ UNCHANGED api
    /\ UNCHANGED aux_vars

\* DbTypes.reset_typecast() / TypeCache.reset_typecast()
reset_typecast_all(c) ==
    /\ calls < MaxCalls
    /\ typecasts' = [typecasts EXCEPT ![c] =
                        IF api = "pg"
                        THEN Typecasts_reset_all(typecasts[c])
                        ELSE LocalTypecasts_reset_all(typecasts[c], defaults)]
    /\ last' = Record(Call("reset_all", c, << >>, None, None, 0))
    /\ calls' = calls + 1
    /\ UNCHANGED <<api, defaults>>
    /\ UNCHANGED aux_vars

\* the module function pg.set_typecast / pgdb.set_typecast
global_set_typecast(typ, cast) ==
    /\ calls < MaxCalls
    /\ defaults' = IF api = "pg"
                   THEN set_default(defaults, typ, cast)
                   ELSE Typecasts_set(defaults, NoConnection, typ, cast)
    /\ last' = Record(Call("global_set", NoConnection, typ, cast, None, 0))
    /\ calls' = calls + 1
    /\ UNCHANGED <<api, typecasts>>
    /\ UNCHANGED aux_vars

\* the module function pgdb.get_typecast, a lookup in the global object that
\* may fill it (pg.get_typecast reads Typecasts.defaults and changes nothing)
global_get_typecast(typ) ==
    /\ calls < MaxCalls
    /\ api = "pgdb"
    /\ LET r == GlobalLookup(defaults, typ) IN
       /\ defaults' = r.self
       /\ last' = Record(Call("global_get", NoConnection, typ, None, r.cast, 0))
    /\ calls' = calls + 1
    /\ UNCHANGED <<api, typecasts>>
    /\ UNCHANGED aux_vars

\* the module function pgdb.reset_typecast(typ)
global_reset_typecast(typ) ==
    /\ calls < MaxCalls
    /\ api = "pgdb"
    /\ defaults' = pgdb_Typecasts_reset(defaults, typ)
    /\ last' = Record(Call("global_reset", NoConnection, typ, None, None, 0))
    /\ calls' = calls + 1
    /\ UNCHANGED <<api, typecasts>>
    /\ UNCHANGED aux_vars

\* the module function pgdb.reset_typecast()
global_reset_typecast_all ==
    /\ calls < MaxCalls
    /\ api = "pgdb"
    /\ defaults' = pgdb_Typecasts_reset_all(defaults)
    /\ last' = Record(Call("global_reset_all", NoConnection, << >>, None, None, 0))
    /\ calls' = calls + 1
    /\ UNCHANGED <<api, typecasts>>
    /\ UNCHANGED aux_vars

Next ==
    \/ \E c \in Conns, typ \in TypeNames : get_typecast(c, typ)
    \/ \E c \in Conns, typ \in TypeNames, cast \in UserCasts \cup {None} :
          set_typecast(c, typ, cast)
    \/ \E c \in Conns, typ \in TypeNames : reset_typecast(c, typ)
    \/ \E c \in Conns : reset_typecast_all(c)
    \/ \E typ \in TypeNames, cast \in UserCasts \cup {None} : global_set_typecast(typ, cast)
    \/ \E typ \in TypeNames : global_get_typecast(typ)
    \/ \E typ \in TypeNames : global_reset_typecast(typ)
    \/ global_reset_typecast_all

Spec == Init /\ [][Next]_vars

\* =================================================================
\* Properties of the typecast registry.  The history variable holds the
\* call that ended the run together with the state it found, so a
\* property of the form "after the call ..." is a predicate of the state.
\* =================================================================

\* what get_typecast(typ) on connection c returns in the current state
Get(c, typ) == Lookup(typecasts[c], defaults, c, typ).cast

\* what it returned in the state the last call found
PreGet(c, typ) == Lookup(last.typecasts[c], last.defaults, c, typ).cast

\* the number of get_attnames/get_fields calls that lookup makes
Asked(c, typ) == Lookup(typecasts[c], defaults, c, typ).lookups

\* what the module function get_typecast(typ) returns in the current state
GlobalDefault(typ) == GlobalLookup(defaults, typ).cast

\* a cast function is registered for typ in the process-wide tier: a
\* built-in default or a cast set with the module function set_typecast
Registered(dflt, typ) ==
    \/ typ \in DOMAIN dflt /\ dflt[typ].kind = "fn"
    \/ api = "pgdb" /\ typ \in DOMAIN ClassDefaults

\* the function under the connection bindings of a cast
RECURSIVE Unbound(_)
Unbound(cast) ==
    CASE cast.kind = "partial" -> Fn(cast.name)
      [] cast.kind = "array" -> ArrayCast(Unbound(cast.basecast))
      [] cast.kind = "record" ->
            RecordCast(cast.name, [i \in DOMAIN cast.casts |-> Unbound(cast.casts[i])])
      [] OTHER -> cast

\* f as set_typecast stores it for connection c
Bound(c, cast) ==
    IF cast.name \in NeedsConnectionNames THEN Partial(cast.name, c) ELSE cast

ArrayName(typ) == <<"_">> \o typ

\* the run ended with a set_typecast(typ, f), f callable, on a connection
AfterSet == last.op = "set" /\ last.cast # None

\* the run ended with reset_typecast(typ) or reset_typecast() on a connection
AfterReset == last.op \in {"reset", "reset_all"}

\* the types a reset call resets
ResetTypes == IF last.op = "reset" THEN {last.typ} ELSE TypeNames

\* the last call was a set or reset of connection c that names typ or the
\* type typ is the array type of, or a reset of all types of c
Touched(c, typ) ==
    /\ last.conn = c
    /\ \/ last.op = "reset_all"
       \/ /\ last.op \in {"set", "reset"}
          /\ \/ last.typ = typ
             \/ startswith_(typ) /\ last.typ = Tail(typ)

\* C1 (as stated): after set_typecast(t, f) on a connection's registry,
\* get_typecast(t) returns f itself, for every callable f.
C1_SetThenGetIsSame ==
    AfterSet => Get(last.conn, last.typ) = last.cast

\* C1 (amended): after set_typecast(t, f), get_typecast(t) returns f itself
\* when f takes no connection argument and f bound to the connection
\* (partial(f, connection=...)) when it does; a stored cast stays until
\* the connection sets or resets t, resets all types, or sets or resets
\* the type that t is the array type of.
C1_SetThenGetIsBound ==
    /\ AfterSet =>
          /\ last.typ \in DOMAIN typecasts[last.conn]
          /\ Get(last.conn, last.typ) = Bound(last.conn, last.cast)
    /\ last.op # "none" =>
          \A c \in Conns, typ \in TypeNames :
             (typ \in DOMAIN last.typecasts[c] /\ ~ Touched(c, typ)) =>
                /\ typ \in DOMAIN typecasts[c]
                /\ Get(c, typ) = last.typecasts[c][typ]

\* C1 witness: the run ended with set_typecast(t, fc) for a cast fc that
\* takes a connection, and get_typecast(t) now returns fc bound to it.
C1_Witness ==
    /\ AfterSet
    /\ last.cast = Fn("fc")
    /\ Get(last.conn, last.typ) = Partial("fc", last.conn)

ArrayWasCached(c, typ) ==
    /\ ArrayName(typ) \in DOMAIN last.typecasts[c]
    /\ last.typecasts[c][ArrayName(typ)].kind = "array"

\* C3 (as stated): if a derived array cast is cached for '_'+t and
\* set_typecast(t, f) is called, the next get_typecast('_'+t) returns an
\* array cast that decodes its elements with f.
C3_SetRebuildsArray ==
    (AfterSet /\ ArrayWasCached(last.conn, last.typ)) =>
       Get(last.conn, ArrayName(last.typ)) =
          ArrayCast(Bound(last.conn, last.cast))

\* C3 (amended): ... the next get_typecast('_'+t) returns an array cast
\* that decodes its elements with f, unless the classic registry has a
\* global default registered for '_'+t by then: it returns that default.
\* In no case does it return the array cast cached before.
C3_SetRebuildsArrayOrDefault ==
    (AfterSet /\ ArrayWasCached(last.conn, last.typ)) =>
       LET c == last.conn
           a == ArrayName(last.typ)
       IN IF api = "pg" /\ Registered(defaults, a)
          THEN Get(c, a) = _add_connection(c, defaults[a])
          ELSE Get(c, a) = ArrayCast(Bound(c, last.cast))

\* C3 witness: the set replaced the cast the cached array cast was built
\* on, and the array cast is now built on the new one.
C3_Witness ==
    /\ AfterSet
    /\ ArrayWasCached(last.conn, last.typ)
    /\ last.typecasts[last.conn][ArrayName(last.typ)].basecast
          # Bound(last.conn, last.cast)
    /\ Get(last.conn, ArrayName(last.typ)) = ArrayCast(Bound(last.conn, last.cast))

\* C4: if an override was set for t and a derived array cast built on it
\* is cached for '_'+t, then after reset_typecast(t) no array cast built on
\* the dropped override stays cached: the next get_typecast('_'+t) returns
\* an array cast built on what t resolves to now.
C4_ResetDropsArray ==
    LET c == last.conn
        typ == last.typ
        a == ArrayName(typ)
    IN (/\ last.op = "reset"
        /\ typ \in DOMAIN last.typecasts[c]
        /\ Unbound(last.typecasts[c][typ]) \in UserCasts
        /\ ArrayWasCached(c, typ)
        /\ last.typecasts[c][a] = ArrayCast(last.typecasts[c][typ])
        /\ Get(c, typ) # last.typecasts[c][typ]
        /\ ~ Registered(defaults, a))
       => /\ Get(c, a) # last.typecasts[c][a]
          /\ Get(c, a) = ArrayCast(Get(c, typ))

\* the types of the fields of the composite type typ
FieldTypes(typ) == {CompositeFields(typ)[i] : i \in DOMAIN CompositeFields(typ)}

\* the record cast built on what the fields of typ resolve to now
CurrentRecordCast(c, typ) ==
    RecordCast(typ, [i \in DOMAIN CompositeFields(typ) |-> Get(c, CompositeFields(typ)[i])])

\* C5: if a record cast is cached for a composite type r with a field of
\* type t, then after set_typecast(t, f) or reset_typecast(t) the next
\* get_typecast(r) returns a record cast that decodes that field with the
\* now-current cast of t.
C5_SetOrResetDropsRecord ==
    (last.op \in {"set", "reset"}) =>
       \A r \in TypeNames :
          (/\ r \in DOMAIN last.typecasts[last.conn]
           /\ last.typecasts[last.conn][r].kind = "record"
           /\ last.typ \in FieldTypes(r))
          => Get(last.conn, r) = CurrentRecordCast(last.conn, r)

\* the run ended with a get_typecast(t) that found no cast for a type
\* with no global default, no array prefix and no composite fields
AfterGetOfPlainType ==
    /\ last.op = "get"
    /\ last.ret = None
    /\ ~ startswith_(last.typ)
    /\ CompositeFields(last.typ) = << >>
    /\ ~ Registered(last.defaults, last.typ)

\* C6 (as stated): after that get_typecast(t) the registry holds a cached
\* 'no cast' entry for t, and a second get_typecast(t) returns none
\* without asking the type metadata cache.
C6_NoCastIsCached ==
    AfterGetOfPlainType =>
       /\ last.typ \in DOMAIN typecasts[last.conn]
       /\ Get(last.conn, last.typ) = None
       /\ Asked(last.conn, last.typ) = 0

\* C6 (amended): after that get_typecast(t) the registry holds no entry
\* for t; a second get_typecast(t) returns none again and asks the type
\* metadata cache for the fields of t again, as the first one did.
C6_NoCastIsNotCached ==
    AfterGetOfPlainType =>
       /\ last.lookups = 1
       /\ last.typ \notin DOMAIN typecasts[last.conn]
       /\ Get(last.conn, last.typ) = None
       /\ Asked(last.conn, last.typ) = 1

\* C6 witness: the run ended with get_typecast('circle') returning none
\* after one question to the type metadata cache.
C6_Witness ==
    /\ AfterGetOfPlainType
    /\ last.typ = <<"circle">>
    /\ last.lookups = 1
    /\ Asked(last.conn, last.typ) = 1

\* C7: every cached derived cast has existing base casts: a cached array
\* cast was built on a function, a cached record cast was built on a
\* function for every field, never on the 'no cast' result.
C7_DerivedHaveBaseCasts ==
    \A c \in Conns :
       \A typ \in DOMAIN typecasts[c] :
          LET cast == typecasts[c][typ] IN
          /\ cast.kind = "array" => cast.basecast # None
          /\ cast.kind = "record" =>
                \A i \in DOMAIN cast.casts : cast.casts[i] # None

\* the cast the stated lookup order gives: connection override, then
\* global default, then derived array or record cast, then none
InOrder(c, typ) ==
    IF typ \in DOMAIN typecasts[c] THEN typecasts[c][typ]
    ELSE IF Registered(defaults, typ) THEN _add_connection(c, GlobalDefault(typ))
    ELSE IF startswith_(typ) THEN ArrayCast(Get(c, Tail(typ)))
    ELSE IF CompositeFields(typ) # << >> THEN CurrentRecordCast(c, typ)
    ELSE None

\* C8: get_typecast(t) resolves in the order connection override, global
\* default, derived cast, none, in both modules; a global default
\* registered for a name with the '_' prefix is preferred to a derived
\* array cast.
C8_LookupOrder ==
    \A c \in Conns, typ \in TypeNames : Get(c, typ) = InOrder(c, typ)

\* the run ended with a set_typecast or reset_typecast call of a connection
AfterLocalChange == last.op \in {"set", "reset", "reset_all"}

\* no other connection's registry changed, nor what its get_typecast returns
OthersUnchanged ==
    \A c \in Conns \ {last.conn} :
       /\ typecasts[c] = last.typecasts[c]
       /\ \A typ \in TypeNames : Get(c, typ) = PreGet(c, typ)

\* C9 (as stated): a set_typecast or reset_typecast of a connection leaves
\* the process-wide table unchanged and changes no cast that another
\* connection's get_typecast returns.
C9_LocalChangeIsLocal ==
    AfterLocalChange => (defaults = last.defaults /\ OthersUnchanged)

\* C9 (amended): ... leaves every cast the process-wide tier returns
\* unchanged and removes or replaces none of its entries (pgdb's
\* reset_typecast(t) may add to the global object the entries its own
\* lookups of t and '_'+t cache there; the classic table is unchanged),
\* and changes no cast that another connection's get_typecast returns.
C9_LocalChangeKeepsDefaults ==
    AfterLocalChange =>
       /\ api = "pg" => defaults = last.defaults
       /\ last.op # "reset" => defaults = last.defaults
       /\ \A typ \in DOMAIN last.defaults :
             typ \in DOMAIN defaults /\ defaults[typ] = last.defaults[typ]
       /\ \A typ \in TypeNames :
             GlobalDefault(typ) = GlobalLookup(last.defaults, typ).cast
       /\ OthersUnchanged

\* C9 witness: the run ended with a reset_typecast(t) of one connection
\* that filled the global object, while the other connection holds casts.
C9_Witness ==
    /\ last.op = "reset"
    /\ defaults # last.defaults
    /\ \E c \in Conns \ {last.conn} : DOMAIN typecasts[c] # {}

OidKey(n) == [kind |-> "oid", oid |-> n, name |-> ""]
NameKey(s) == [kind |-> "name", oid |-> 0, name |-> s]

\* the rows of pg_type: oid and typname
CatalogTypes == {[oid |-> 23, pgtype |-> "int4"], [oid |-> 1700, pgtype |-> "numeric"]}

\* the names key::regtype accepts for a row beside its typname: a name
\* with a dot is passed to the cast as it is by both modules
Aliases(row) == {"pg_catalog." \o row.pgtype}

\* the keys of the lookups: the OIDs and names of the catalog, and an OID
\* and a name it does not have
TypeKeys ==
    {OidKey(row.oid) : row \in CatalogTypes} \cup {OidKey(9)}
    \cup {NameKey(row.pgtype) : row \in CatalogTypes}
    \cup {NameKey(a) : a \in UNION {Aliases(row) : row \in CatalogTypes}}
    \cup {NameKey("nosuch")}

NoRow == [oid |-> 0, pgtype |-> ""]

\* SELECT ... FROM pg_type WHERE oid = key::regtype: the row, or no row
\* when the result is empty or the cast raises ProgrammingError
CatalogQuery(key) ==
    LET found == {row \in CatalogTypes :
                     IF key.kind = "oid" THEN row.oid = key.oid
                     ELSE key.name = row.pgtype \/ key.name \in Aliases(row)}
    IN IF found = {} THEN NoRow ELSE CHOOSE row \in found : TRUE

\* a descriptor object (DbType / TypeCode) with its identity
Descriptor(id, row) == [id |-> id, oid |-> row.oid, pgtype |-> row.pgtype]
NoDescriptor == [id |-> 0, oid |-> 0, pgtype |-> ""]

\* DbTypes.add: the cached object when the OID is a key, else a new one
DbTypes_add(self, id, row) ==
    IF OidKey(row.oid) \in DOMAIN self
    THEN self[OidKey(row.oid)]
    ELSE Descriptor(id, row)

\* TypeCode.create: always a new object
TypeCode_create(id, row) == Descriptor(id, row)

\* the outcome of a lookup: the kind of result ("type", "KeyError" or
\* "None"), the descriptor, the dict and the next identity after it, and
\* whether the catalog was queried
Outcome(kind, typ, self, id, queried) ==
    [kind |-> kind, typ |-> typ, self |-> self, nextid |-> id, queried |-> queried]

\* a faulty variant of __missing__ that stores the descriptor under the
\* key of the lookup only; C12 tells it from the code's
DbTypes_missing_one_key(self, id, key) ==
    LET res == CatalogQuery(key) IN
    IF res = NoRow
    THEN Outcome("KeyError", NoDescriptor, self, id, TRUE)
    ELSE LET typ == IF api = "pg" THEN DbTypes_add(self, id, res)
                    ELSE TypeCode_create(id, res)
         IN Outcome("type", typ, SetItem(self, key, typ),
                    IF typ.id = id THEN id + 1 ELSE id, TRUE)

\* a faulty variant of __missing__ that returns and stores a descriptor
\* of its own making when the catalog has no row; C13 tells it from the
\* code's
DbTypes_missing_default(self, id, key) ==
    LET res == CatalogQuery(key)
        typ == IF api = "pg" THEN DbTypes_add(self, id, res)
               ELSE TypeCode_create(id, res)
    IN Outcome("type", typ,
               SetItem(SetItem(self, OidKey(typ.oid), typ), NameKey(typ.pgtype), typ),
               IF typ.id = id THEN id + 1 ELSE id, TRUE)

\* DbTypes.__missing__ / TypeCache.__missing__
DbTypes_missing(self, id, key) ==
    LET res == CatalogQuery(key) IN
    IF res = NoRow
    THEN Outcome("KeyError", NoDescriptor, self, id, TRUE)
    ELSE LET typ == IF api = "pg" THEN DbTypes_add(self, id, res)
                    ELSE TypeCode_create(id, res)
         IN Outcome("type", typ,
                    SetItem(SetItem(self, OidKey(typ.oid), typ), NameKey(typ.pgtype), typ),
                    IF typ.id = id THEN id + 1 ELSE id, TRUE)

\* self[key]
DbTypes_getitem(self, id, key) ==
    IF key \in DOMAIN self
    THEN Outcome("type", self[key], self, id, FALSE)
    ELSE DbTypes_missing(self, id, key)

\* DbTypes.get / TypeCache.get: self[key], the default None on KeyError
DbTypes_get(self, id, key) ==
    LET r == DbTypes_getitem(self, id, key) IN
    IF r.kind = "KeyError"
    THEN Outcome("None", NoDescriptor, r.self, r.nextid, r.queried)
    ELSE r

\* the record of a call on the type cache, with the state it found
TypeCall(op, key, r) ==
    [op |-> op, key |-> key, ret |-> r.kind, typ |-> r.typ, queried |-> r.queried,
     dbtypes |-> dbtypes, nextid |-> nextid, returned |-> returned]

TypesInit ==
    /\ api \in {"pg", "pgdb"}
    /\ defaults = EmptyDict
    /\ typecasts = [c \in Conns |-> EmptyDict]
    /\ last = NoCall
    /\ calls = 0
    /\ TypesIdle
    /\ ThreadsIdle
    /\ ExtIdle
    /\ PureIdle

\* after a lookup: the dict, the next identity and the descriptors returned
AfterLookup(op, key, r) ==
    /\ dbtypes' = r.self
    /\ nextid' = r.nextid
    /\ returned' = IF r.kind = "type" THEN SetItem(returned, key, r.typ) ELSE returned
    /\ last' = TypeCall(op, key, r)
    /\ calls' = calls + 1
    /\ UNCHANGED <<api, defaults, typecasts, thread_vars, pure_vars, ext_vars>>

\* dbtypes[key] / type_cache[key]
types_getitem(key) ==
    /\ calls < MaxCalls
    /\ AfterLookup("getitem", key, DbTypes_getitem(dbtypes, nextid, key))

\* dbtypes.get(key) / type_cache.get(key)
types_get(key) ==
    /\ calls < MaxCalls
    /\ AfterLookup("get", key, DbTypes_get(dbtypes, nextid, key))

\* the explicit reset: DB.use_regtypes calls dbtypes.clear()
types_clear ==
    /\ calls < MaxCalls
    /\ dbtypes' = EmptyDict
    /\ returned' = EmptyDict
    /\ last' = [op |-> "clear", key |-> OidKey(0), ret |-> "None", typ |-> NoDescriptor,
                queried |-> FALSE, dbtypes |-> dbtypes, nextid |-> nextid,
                returned |-> returned]
    /\ calls' = calls + 1
    /\ UNCHANGED <<api, defaults, typecasts, nextid, thread_vars, pure_vars, ext_vars>>

TypesNext ==
    \/ \E key \in TypeKeys : types_getitem(key)
    \/ \E key \in TypeKeys : types_get(key)
    \/ types_clear

TypesSpec == TypesInit /\ [][TypesNext]_vars

\* ------------------------------------------------ properties, type cache

\* the run ended with a lookup, dbtypes[key] or dbtypes.get(key)
AfterTypeLookup == last.op \in {"getitem", "get"}

\* key names a type by its OID or by its typname, not by an alias
IsOidOrTypname(key) ==
    \/ key.kind = "oid"
    \/ \E row \in CatalogTypes : key.name = row.pgtype

\* the type that key names was resolved, by any key, since the cache was
\* last cleared
ResolvedBefore(key) ==
    \E k \in DOMAIN last.returned : last.returned[k].oid = CatalogQuery(key).oid

\* C11: resolving a type by its OID and by a name the catalog accepts for
\* it (typname or alias) returns the identical descriptor object, in
\* either order of the lookups.
C11_SameDescriptor ==
    \A k1 \in DOMAIN returned, k2 \in DOMAIN returned :
       (k1.kind = "oid" /\ k2.kind = "name" /\ returned[k1].oid = returned[k2].oid)
          => returned[k1].id = returned[k2].id

\* C12 (as stated): after one successful resolution of a type, every later
\* lookup by its OID or by the name that was used is served from the
\* cache without a catalog query, until the cache is cleared.
C12_LaterLookupsAreCached ==
    (/\ AfterTypeLookup
     /\ \/ last.key \in DOMAIN last.returned
        \/ last.key.kind = "oid" /\ CatalogQuery(last.key) # NoRow /\ ResolvedBefore(last.key))
    => ~ last.queried

\* C12 (amended): after one successful resolution of a type, every later
\* lookup by its OID or by its typname is served from the cache without
\* a catalog query, until the cache is cleared; the keys the cache holds
\* are OIDs and typnames only, so a lookup by any other name the catalog
\* accepts (an alias) queries the catalog every time.
C12_OidAndTypnameAreCached ==
    /\ AfterTypeLookup => (last.queried <=> last.key \notin DOMAIN last.dbtypes)
    /\ (AfterTypeLookup /\ CatalogQuery(last.key) # NoRow /\ ResolvedBefore(last.key)) =>
          (last.queried <=> ~ IsOidOrTypname(last.key))
    /\ \A k \in DOMAIN returned :
          /\ OidKey(returned[k].oid) \in DOMAIN dbtypes
          /\ NameKey(returned[k].pgtype) \in DOMAIN dbtypes
    /\ \A k \in DOMAIN dbtypes : IsOidOrTypname(k)

\* C12 witness: a type was resolved by an alias only, and the run ended
\* with a lookup by its OID that did not query the catalog.
C12_Witness ==
    /\ AfterTypeLookup
    /\ last.key.kind = "oid"
    /\ ~ last.queried
    /\ DOMAIN last.returned # {}
    /\ \A k \in DOMAIN last.returned : ~ IsOidOrTypname(k)

\* the run ended with a lookup of a key the catalog has no row for
AfterUnknownLookup == AfterTypeLookup /\ CatalogQuery(last.key) = NoRow

\* C13 (as stated): resolving a name or OID the catalog does not find ends
\* in KeyError; no descriptor is produced and the cache is unchanged.
C13_UnknownRaises ==
    AfterUnknownLookup =>
       /\ last.ret = "KeyError"
       /\ dbtypes = last.dbtypes
       /\ nextid = last.nextid

\* C13 (amended): for a name or OID the catalog does not find, dbtypes[key]
\* ends in KeyError and dbtypes.get(key) returns its default, None,
\* without an error; in both cases the catalog is queried, no descriptor
\* is produced and the cache is unchanged.
C13_UnknownRaisesOrDefault ==
    AfterUnknownLookup =>
       /\ last.ret = (IF last.op = "getitem" THEN "KeyError" ELSE "None")
       /\ last.typ = NoDescriptor
       /\ last.queried
       /\ dbtypes = last.dbtypes
       /\ nextid = last.nextid
       /\ returned = last.returned

\* C13 witness: dbtypes.get of an unknown name returned None and left a
\* cache that holds descriptors as it was.
C13_Witness ==
    /\ AfterUnknownLookup
    /\ last.op = "get"
    /\ last.ret = "None"
    /\ DOMAIN dbtypes # {}

\* =================================================================
\* Threads on the process-wide tier.  The module functions get_typecast,
\* set_typecast and reset_typecast take no lock; a thread switch can
\* fall between any two dict operations of a call, so each dict
\* operation is one step.  The calls are made with base type names.
\* =================================================================

ThreadTypeNames == {<<b>> : b \in BaseNames}

\* the first position of a call
FirstPc(op) ==
    CASE op = "get" -> "get_lookup"
      [] op = "set" -> "set_store"
      [] op = "reset" -> "reset_read"

ThreadsInit ==
    /\ api \in {"pg", "pgdb"}
    /\ defaults = IF api = "pg" THEN ClassDefaults ELSE EmptyDict
    /\ typecasts = [c \in Conns |-> EmptyDict]
    /\ last = NoCall
    /\ calls = 0
    /\ TypesIdle
    /\ ThreadsIdle
    /\ ExtIdle
    /\ PureIdle

\* what a step of thread t leaves alone
ThreadFrame == UNCHANGED <<api, typecasts, last, calls, types_vars, pure_vars, ext_vars>>

\* thread t moves to position pc with its local variable cast set
Goto(t, pc, cast) == threads' = [threads EXCEPT ![t].pc = pc, ![t].local = cast]

\* a thread enters get_typecast(typ), set_typecast(typ, cast) or
\* reset_typecast(typ); pg has no module function reset_typecast
thread_call(t, op, typ, cast) ==
    /\ threads[t].pc = "idle"
    /\ op = "reset" => api = "pgdb"
    /\ threads' = [threads EXCEPT ![t] =
                      [pc |-> FirstPc(op), op |-> op, typ |-> typ,
                       cast |-> IF op = "set" THEN cast ELSE None, local |-> None]]
    /\ UNCHANGED defaults
    /\ ThreadFrame

\* get: pg reads Typecasts.defaults.get(typ); pgdb evaluates _typecasts[typ],
\* which returns the entry or enters __missing__
get_lookup(t) ==
    /\ threads[t].pc = "get_lookup"
    /\ IF api = "pg" \/ threads[t].typ \in DOMAIN defaults
       THEN Goto(t, "done", DictGet(defaults, threads[t].typ))
       ELSE Goto(t, "missing_read", None)
    /\ UNCHANGED defaults
    /\ ThreadFrame

\* __missing__: cast = self.defaults.get(typ), read from the class attribute
missing_read(t) ==
    /\ threads[t].pc = "missing_read"
    /\ LET cast == DictGet(ClassDefaults, threads[t].typ) IN
       IF cast # None THEN Goto(t, "missing_store", cast) ELSE Goto(t, "done", None)
    /\ UNCHANGED defaults
    /\ ThreadFrame

\* __missing__: self[typ] = cast
missing_store(t) ==
    /\ threads[t].pc = "missing_store"
    /\ defaults' = SetItem(defaults, threads[t].typ, threads[t].local)
    /\ Goto(t, "done", threads[t].local)
    /\ ThreadFrame

\* set / set_default: self[t] = cast, or self.pop(t, None) for cast None
set_store(t) ==
    /\ threads[t].pc = "set_store"
    /\ defaults' = IF threads[t].cast = None
                   THEN Pop(defaults, threads[t].typ)
                   ELSE SetItem(defaults, threads[t].typ, threads[t].cast)
    /\ Goto(t, "set_pop", None)
    /\ ThreadFrame

\* set / set_default: self.pop('_%s' % t, None)
set_pop(t) ==
    /\ threads[t].pc = "set_pop"
    /\ defaults' = Pop(defaults, <<"_">> \o threads[t].typ)
    /\ Goto(t, "done", None)
    /\ ThreadFrame

\* pgdb reset(typ): cast = defaults.get(t), read from the class attribute
reset_read(t) ==
    /\ threads[t].pc = "reset_read"
    /\ Goto(t, "reset_store", DictGet(ClassDefaults, threads[t].typ))
    /\ UNCHANGED defaults
    /\ ThreadFrame

\* pgdb reset(typ): self[t] = cast, or self.pop(t, None) when there is no
\* default
reset_store(t) ==
    /\ threads[t].pc = "reset_store"
    /\ defaults' = IF threads[t].local # None
                   THEN SetItem(defaults, threads[t].typ, threads[t].local)
                   ELSE Pop(defaults, threads[t].typ)
    /\ Goto(t, "reset_array", threads[t].local)
    /\ ThreadFrame

\* pgdb reset(typ): the entry of '_'+t is set to its class default or popped
reset_array(t) ==
    /\ threads[t].pc = "reset_array"
    /\ LET a == <<"_">> \o threads[t].typ
           cast == DictGet(ClassDefaults, a)
       IN defaults' = IF threads[t].local # None /\ cast # None
                      THEN SetItem(defaults, a, cast)
                      ELSE Pop(defaults, a)
    /\ Goto(t, "done", None)
    /\ ThreadFrame

ThreadsNext ==
    \/ \E t \in Threads, op \in {"get", "set", "reset"}, typ \in ThreadTypeNames,
          cast \in UserCasts \cup {None} : thread_call(t, op, typ, cast)
    \/ \E t \in Threads : get_lookup(t)
    \/ \E t \in Threads : missing_read(t)
    \/ \E t \in Threads : missing_store(t)
    \/ \E t \in Threads : set_store(t)
    \/ \E t \in Threads : set_pop(t)
    \/ \E t \in Threads : reset_read(t)
    \/ \E t \in Threads : reset_store(t)
    \/ \E t \in Threads : reset_array(t)

ThreadsSpec == ThreadsInit /\ [][ThreadsNext]_vars

\* ------------------------------------------------ properties, threads

\* thread t has completed the call op
Completed(t, op) == threads[t].pc = "done" /\ threads[t].op = op

\* C14: the get, set and reset of the process-wide tier are mutually
\* exclusive: when one thread has completed set_typecast(t, f) and the
\* only other call is a get_typecast(t) of another thread, the tier holds
\* f for t once both are done; the get never stores the default it read
\* before the set over f.
C14_SetIsNotLost ==
    \A a \in Threads, b \in Threads :
       (/\ a # b
        /\ Completed(a, "set") /\ threads[a].cast # None
        /\ Completed(b, "get") /\ threads[b].typ = threads[a].typ)
       => DictGet(defaults, threads[a].typ) = threads[a].cast

\* =================================================================
\* cast_interval.  A literal is a sequence of characters; the words of a
\* dialect ("year", "years", "ago", ...) are written as one element each.
\* Each pattern is matched at the start of the literal (regex.match) and
\* its optional groups are taken greedily, from left to right.
\* =================================================================

Digits == {"0", "1", "2", "3", "4", "5", "6", "7", "8", "9"}

DigitValue(c) ==
    CASE c = "0" -> 0 [] c = "1" -> 1 [] c = "2" -> 2 [] c = "3" -> 3 [] c = "4" -> 4
      [] c = "5" -> 5 [] c = "6" -> 6 [] c = "7" -> 7 [] c = "8" -> 8 [] c = "9" -> 9

\* the character at position i, "" past the end
Ch(s, i) == IF i \in 1..Len(s) THEN s[i] ELSE ""

\* [0-9]+ from position i: the position after the longest run of digits
RECURSIVE DigitsEnd(_, _)
DigitsEnd(s, i) == IF Ch(s, i) \in Digits THEN DigitsEnd(s, i + 1) ELSE i

\* int() of the digits at positions i..j-1
RECURSIVE IntOf(_, _, _)
IntOf(s, i, j) == IF j <= i THEN 0 ELSE IntOf(s, i, j - 1) * 10 + DigitValue(s[j - 1])

\* ' ?'
OptSpace(s, i) == IF Ch(s, i) = " " THEN i + 1 ELSE i

\* [+-]?
OptSign(s, i) == IF Ch(s, i) \in {"+", "-"} THEN i + 1 ELSE i

\* F applied to the value of v
Only(S) == CHOOSE x \in S : TRUE
Eval(v, F(_)) == Only({F(x) : x \in {v}})

\* a group that did not take part in the match: d or '0'
NoGroup(i) == [ok |-> FALSE, val |-> 0, end |-> i]

\* ([+-]?[0-9]+), the value as int() reads it
SignedInt(s, i) ==
    Eval(OptSign(s, i), LAMBDA k :
    Eval(DigitsEnd(s, k), LAMBDA e :
    IF e > k
    THEN Eval(IntOf(s, k, e), LAMBDA n :
         [ok |-> TRUE, val |-> IF Ch(s, i) = "-" THEN 0 - n ELSE n, end |-> e])
    ELSE NoGroup(i)))

\* (?:([+-]?[0-9]+) ?years? ?)? and the like: words holds the unit with
\* and without its plural s
UnitGroup(s, i, words) ==
    Eval(SignedInt(s, i), LAMBDA n :
    Eval(OptSpace(s, n.end), LAMBDA p :
    IF n.ok /\ Ch(s, p) \in words
    THEN [ok |-> TRUE, val |-> n.val, end |-> OptSpace(s, p + 1)]
    ELSE NoGroup(i)))

\* (?:([+-]?[0-9]+)Y)? and the like
LetterGroup(s, i, letter) ==
    Eval(SignedInt(s, i), LAMBDA n :
    IF n.ok /\ Ch(s, n.end) = letter
    THEN [ok |-> TRUE, val |-> n.val, end |-> n.end + 1]
    ELSE NoGroup(i))

\* (?:\.([0-9]+))?
Fraction(s, i) ==
    Eval(DigitsEnd(s, i + 1), LAMBDA e :
    IF Ch(s, i) = "." /\ e > i + 1
    THEN [ok |-> TRUE, val |-> IntOf(s, i + 1, e), end |-> e]
    ELSE NoGroup(i))

\* a time or seconds group that did not take part in the match
NoTime(i) ==
    [ok |-> FALSE, minus |-> FALSE, hours |-> 0, mins |-> 0, secs |-> 0, usecs |-> 0, end |-> i]

\* (?:([+-])?([0-9]+):([0-9]+):([0-9]+)(?:\.([0-9]+))?)?
TimeGroup(s, i) ==
    Eval(OptSign(s, i), LAMBDA k :
    Eval(DigitsEnd(s, k), LAMBDA e1 :
    Eval(DigitsEnd(s, e1 + 1), LAMBDA e2 :
    Eval(DigitsEnd(s, e2 + 1), LAMBDA e3 :
    Eval(Fraction(s, e3), LAMBDA f :
    IF /\ e1 > k /\ Ch(s, e1) = ":"
       /\ e2 > e1 + 1 /\ Ch(s, e2) = ":"
       /\ e3 > e2 + 1
    THEN [ok |-> TRUE, minus |-> Ch(s, i) = "-", hours |-> IntOf(s, k, e1),
          mins |-> IntOf(s, e1 + 1, e2), secs |-> IntOf(s, e2 + 1, e3),
          usecs |-> f.val, end |-> f.end]
    ELSE NoTime(i))))))

\* (?:([+-])?([0-9]+)(?:\.([0-9]+))? ?secs?)? with spaced = TRUE and
\* (?:([+-])?([0-9]+)(?:\.([0-9]+))?S)? with spaced = FALSE
SecondsGroup(s, i, words, spaced) ==
    Eval(OptSign(s, i), LAMBDA k :
    Eval(DigitsEnd(s, k), LAMBDA e :
    Eval(Fraction(s, e), LAMBDA f :
    Eval(IF spaced THEN OptSpace(s, f.end) ELSE f.end, LAMBDA p :
    IF e > k /\ Ch(s, p) \in words
    THEN [ok |-> TRUE, minus |-> Ch(s, i) = "-", hours |-> 0, mins |-> 0,
          secs |-> IntOf(s, k, e), usecs |-> f.val, end |-> p + 1]
    ELSE NoTime(i)))))

\* what a pattern's match gives: m is the list of the seven numbers in
\* the order years, mons, days, hours, mins, secs, usecs, minus is the
\* popped sign of the time or seconds group, years_minus the popped sign
\* of the year-month group, any is any(m.groups())
NoMatch ==
    [ok |-> FALSE, any |-> FALSE, m |-> <<0, 0, 0, 0, 0, 0, 0>>, minus |-> FALSE,
     years_minus |-> FALSE, ago |-> FALSE, end |-> 1]

Match(groups, m, minus, years_minus, ago, end) ==
    [ok |-> TRUE, any |-> \E i \in 1..Len(groups) : groups[i], m |-> m, minus |-> minus,
     years_minus |-> years_minus, ago |-> ago, end |-> end]

_re_interval_iso_8601(s) ==
    IF Ch(s, 1) # "P" THEN NoMatch
    ELSE
    Eval(LetterGroup(s, 2, "Y"), LAMBDA years :
    Eval(LetterGroup(s, years.end, "M"), LAMBDA mons :
    Eval(LetterGroup(s, mons.end, "D"), LAMBDA days :
    Eval(Ch(s, days.end) = "T", LAMBDA t :
    Eval(IF t THEN LetterGroup(s, days.end + 1, "H") ELSE NoGroup(days.end), LAMBDA hours :
    Eval(IF t THEN LetterGroup(s, hours.end, "M") ELSE NoGroup(days.end), LAMBDA mins :
    Eval(IF t THEN SecondsGroup(s, mins.end, {"S"}, FALSE) ELSE NoTime(days.end), LAMBDA secs :
    Match(<<years.ok, mons.ok, days.ok, hours.ok, mins.ok, secs.ok>>,
          <<years.val, mons.val, days.val, hours.val, mins.val, secs.secs, secs.usecs>>,
          secs.minus, FALSE, FALSE, secs.end))))))))

_re_interval_postgres_verbose(s) ==
    IF Ch(s, 1) # "@" THEN NoMatch
    ELSE
    Eval(UnitGroup(s, OptSpace(s, 2), {"year", "years"}), LAMBDA years :
    Eval(UnitGroup(s, years.end, {"mon", "mons"}), LAMBDA mons :
    Eval(UnitGroup(s, mons.end, {"day", "days"}), LAMBDA days :
    Eval(UnitGroup(s, days.end, {"hour", "hours"}), LAMBDA hours :
    Eval(UnitGroup(s, hours.end, {"min", "mins"}), LAMBDA mins :
    Eval(SecondsGroup(s, mins.end, {"sec", "secs"}, TRUE), LAMBDA secs :
    Eval(OptSpace(s, secs.end), LAMBDA p :
    Eval(Ch(s, p) = "ago", LAMBDA ago :
    Match(<<years.ok, mons.ok, days.ok, hours.ok, mins.ok, secs.ok, ago>>,
          <<years.val, mons.val, days.val, hours.val, mins.val, secs.secs, secs.usecs>>,
          secs.minus, FALSE, ago, IF ago THEN p + 1 ELSE p)))))))))

_re_interval_postgres(s) ==
    Eval(UnitGroup(s, 1, {"year", "years"}), LAMBDA years :
    Eval(UnitGroup(s, years.end, {"mon", "mons"}), LAMBDA mons :
    Eval(UnitGroup(s, mons.end, {"day", "days"}), LAMBDA days :
    Eval(TimeGroup(s, days.end), LAMBDA time :
    Match(<<years.ok, mons.ok, days.ok, time.ok>>,
          <<years.val, mons.val, days.val, time.hours, time.mins, time.secs, time.usecs>>,
          time.minus, FALSE, FALSE, time.end)))))

\* (?:([+-])?([0-9]+)-([0-9]+) ?)?
YearMonthGroup(s, i) ==
    Eval(OptSign(s, i), LAMBDA k :
    Eval(DigitsEnd(s, k), LAMBDA e1 :
    Eval(DigitsEnd(s, e1 + 1), LAMBDA e2 :
    IF e1 > k /\ Ch(s, e1) = "-" /\ e2 > e1 + 1
    THEN [ok |-> TRUE, minus |-> Ch(s, i) = "-", years |-> IntOf(s, k, e1),
          mons |-> IntOf(s, e1 + 1, e2), end |-> OptSpace(s, e2)]
    ELSE [ok |-> FALSE, minus |-> FALSE, years |-> 0, mons |-> 0, end |-> i])))

\* (?:([+-]?[0-9]+)(?!:) ?)?  When a colon follows the digits, the
\* pattern gives back the last digit, which then is followed by a digit.
DaysGroup(s, i) ==
    Eval(OptSign(s, i), LAMBDA k :
    Eval(DigitsEnd(s, k), LAMBDA e :
    Eval(IF Ch(s, i) = "-" THEN 0 - 1 ELSE 1, LAMBDA sign :
    IF e = k THEN NoGroup(i)
    ELSE IF Ch(s, e) # ":"
    THEN [ok |-> TRUE, val |-> sign * IntOf(s, k, e), end |-> OptSpace(s, e)]
    ELSE IF e - 1 > k
    THEN [ok |-> TRUE, val |-> sign * IntOf(s, k, e - 1), end |-> e - 1]
    ELSE NoGroup(i))))

_re_interval_sql_standard(s) ==
    Eval(YearMonthGroup(s, 1), LAMBDA ym :
    Eval(DaysGroup(s, ym.end), LAMBDA days :
    Eval(TimeGroup(s, days.end), LAMBDA time :
    Match(<<ym.ok, days.ok, time.ok>>,
          <<ym.years, ym.mons, days.val, time.hours, time.mins, time.secs, time.usecs>>,
          time.minus, ym.minus, FALSE, time.end))))

\* timedelta(days=, hours=, minutes=, seconds=, microseconds=): the
\* normalised duration, 0 <= seconds < 86400 and 0 <= microseconds < 10^6
timedelta(days, hours, mins, secs, usecs) ==
    LET s == hours * 3600 + mins * 60 + secs + (usecs \div 1000000)
    IN [days |-> days + (s \div 86400), seconds |-> s % 86400,
        microseconds |-> usecs % 1000000]

Neg(n) == 0 - n

\* a year folded as twelve months of thirty days
fold_interval_360(c) ==
    timedelta(c[3] + 360 * c[1] + 30 * c[2], c[4], c[5], c[6], c[7])

\* lines 870-872: the years and months are folded into the days
fold_interval(c) ==
    timedelta(c[3] + 365 * c[1] + 30 * c[2], c[4], c[5], c[6], c[7])

Parsed(dialect, c) ==
    [kind |-> "timedelta", dialect |-> dialect, parts |-> c, value |-> fold_interval(c)]

Unparsable ==
    [kind |-> "ValueError", dialect |-> "none", parts |-> <<0, 0, 0, 0, 0, 0, 0>>,
     value |-> timedelta(0, 0, 0, 0, 0)]

\* secs = -secs; usecs = -usecs
NegSecs(c, on) == IF on THEN <<c[1], c[2], c[3], c[4], c[5], Neg(c[6]), Neg(c[7])>> ELSE c

\* hours = -hours; mins = -mins; secs = -secs; usecs = -usecs
NegTime(c, on) ==
    IF on THEN <<c[1], c[2], c[3], Neg(c[4]), Neg(c[5]), Neg(c[6]), Neg(c[7])>> ELSE c

\* years = -years; mons = -mons
NegYears(c, on) == IF on THEN <<Neg(c[1]), Neg(c[2]), c[3], c[4], c[5], c[6], c[7]>> ELSE c

\* ago read as reversing the seconds and microseconds only
NegAll_seconds_only(c, on) ==
    IF on THEN <<c[1], c[2], c[3], c[4], c[5], Neg(c[6]), Neg(c[7])>> ELSE c

\* [-int(d) for d in m] if ago else [int(d) for d in m]
NegAll(c, on) == IF on THEN [i \in 1..7 |-> Neg(c[i])] ELSE c

cast_interval(value) ==
    Eval(value, LAMBDA s :
    Eval(_re_interval_iso_8601(s), LAMBDA iso :
    IF iso.ok THEN Parsed("iso_8601", NegSecs(iso.m, iso.minus))
    ELSE
    Eval(_re_interval_postgres_verbose(s), LAMBDA verbose :
    IF verbose.ok
    THEN Parsed("postgres_verbose", NegSecs(NegAll(verbose.m, verbose.ago), verbose.minus))
    ELSE
    Eval(_re_interval_postgres(s), LAMBDA postgres :
    IF postgres.ok /\ postgres.any
    THEN Parsed("postgres", NegTime(postgres.m, postgres.minus))
    ELSE
    Eval(_re_interval_sql_standard(s), LAMBDA sql :
    IF sql.ok /\ sql.any
    THEN Parsed("sql_standard", NegTime(NegYears(sql.m, sql.years_minus), sql.minus))
    ELSE Unparsable)))))

\* -----------------------------------------------------------------
\* The literals the server sends for an interval under the four
\* IntervalStyle settings, as the table of TestCastInterval records them
\* (sql_standard, postgres, postgres_verbose, iso_8601).  The server keeps
\* an interval as months, days and microseconds, so that the years and
\* months of a literal have one sign, and so have its hours, minutes,
\* seconds and microseconds.
\* -----------------------------------------------------------------

Abs(n) == IF n < 0 THEN 0 - n ELSE n

\* integer division rounding towards zero
Quot(a, b) == IF a < 0 THEN 0 - ((0 - a) \div b) ELSE a \div b

DigitChar(d) == CHOOSE c \in Digits : DigitValue(c) = d

\* the decimal digits of n >= 0
RECURSIVE Str(_)
Str(n) == IF n < 10 THEN <<DigitChar(n)>> ELSE Str(n \div 10) \o <<DigitChar(n % 10)>>

\* %0<width>d
RECURSIVE Pad(_, _)
Pad(d, width) == IF Len(d) >= width THEN d ELSE Pad(<<"0">> \o d, width)

\* %d
IntStr(n) == IF n < 0 THEN <<"-">> \o Str(0 - n) ELSE Str(n)

RECURSIVE TrimZeros(_)
TrimZeros(d) ==
    IF Len(d) > 0 /\ d[Len(d)] = "0" THEN TrimZeros(SubSeq(d, 1, Len(d) - 1)) ELSE d

\* seconds with up to six digits of fraction, without sign
SecondsStr(sec, fsec, fill) ==
    (IF fill THEN Pad(Str(Abs(sec)), 2) ELSE Str(Abs(sec)))
        \o (IF fsec = 0 THEN << >> ELSE <<".">> \o TrimZeros(Pad(Str(Abs(fsec)), 6)))

\* the fields the server prints for (years, mons, days, hours, mins, secs, usecs)
Fields(c) ==
    LET months == 12 * c[1] + c[2]
        year == Quot(months, 12)
        s0 == c[4] * 3600 + c[5] * 60 + c[6] + (c[7] \div 1000000)
        u0 == c[7] % 1000000
        s == IF s0 < 0 /\ u0 > 0 THEN s0 + 1 ELSE s0
        fsec == IF s0 < 0 /\ u0 > 0 THEN u0 - 1000000 ELSE u0
        hour == Quot(s, 3600)
        min == Quot(s - hour * 3600, 60)
    IN [year |-> year, mon |-> months - 12 * year, mday |-> c[3], hour |-> hour,
        min |-> min, sec |-> s - hour * 3600 - min * 60, fsec |-> fsec]

TimeMinus(f) == f.hour < 0 \/ f.min < 0 \/ f.sec < 0 \/ f.fsec < 0

SignChar(minus) == IF minus THEN "-" ELSE "+"

\* H:MM:SS[.ffffff] without sign
ClockStr(f, fill) ==
    (IF fill THEN Pad(Str(Abs(f.hour)), 2) ELSE Str(Abs(f.hour)))
        \o <<":">> \o Pad(Str(Abs(f.min)), 2) \o <<":">> \o SecondsStr(f.sec, f.fsec, TRUE)

\* IntervalStyle sql_standard: one leading sign for a value of one sign
\* that is either year-month or day-time, forced signs on the three
\* groups otherwise
render_sql_standard(c) ==
    LET f == Fields(c)
        nums == <<f.year, f.mon, f.mday, f.hour, f.min, f.sec, f.fsec>>
        has_negative == \E i \in 1..7 : nums[i] < 0
        has_positive == \E i \in 1..7 : nums[i] > 0
        has_year_month == f.year # 0 \/ f.mon # 0
        has_day_time == f.mday # 0 \/ f.hour # 0 \/ f.min # 0 \/ f.sec # 0 \/ f.fsec # 0
        standard == ~(has_negative /\ has_positive) /\ ~(has_year_month /\ has_day_time)
        sign == IF has_negative THEN <<"-">> ELSE << >>
    IN IF ~has_negative /\ ~has_positive THEN <<"0">>
       ELSE IF ~standard
       THEN <<SignChar(f.year < 0 \/ f.mon < 0)>> \o Str(Abs(f.year)) \o <<"-">>
                \o Str(Abs(f.mon)) \o <<" ", SignChar(f.mday < 0)>> \o Str(Abs(f.mday))
                \o <<" ", SignChar(TimeMinus(f))>> \o ClockStr(f, FALSE)
       ELSE IF has_year_month
       THEN sign \o Str(Abs(f.year)) \o <<"-">> \o Str(Abs(f.mon))
       ELSE IF f.mday # 0
       THEN sign \o Str(Abs(f.mday)) \o <<" ">> \o ClockStr(f, FALSE)
       ELSE sign \o ClockStr(f, FALSE)

\* one "<n> unit[s]" part of the postgres style: a part after a negative
\* one carries an explicit plus sign
PostgresPart(value, units, first, before) ==
    IF value = 0 THEN << >>
    ELSE (IF first THEN << >> ELSE <<" ">>)
             \o (IF before /\ value > 0 THEN <<"+">> ELSE << >>)
             \o IntStr(value) \o <<" ", IF value # 1 THEN units \o "s" ELSE units>>

\* IntervalStyle postgres
render_postgres(c) ==
    LET f == Fields(c)
        years == PostgresPart(f.year, "year", TRUE, FALSE)
        mons == PostgresPart(f.mon, "mon", f.year = 0, f.year < 0)
        before2 == IF f.mon # 0 THEN f.mon < 0 ELSE f.year < 0
        days == PostgresPart(f.mday, "day", f.year = 0 /\ f.mon = 0, before2)
        before3 == IF f.mday # 0 THEN f.mday < 0 ELSE before2
        is_zero == f.year = 0 /\ f.mon = 0 /\ f.mday = 0
        time == IF is_zero \/ f.hour # 0 \/ f.min # 0 \/ f.sec # 0 \/ f.fsec # 0
                THEN (IF is_zero THEN << >> ELSE <<" ">>)
                         \o (IF TimeMinus(f) THEN <<"-">>
                             ELSE IF before3 THEN <<"+">> ELSE << >>)
                         \o ClockStr(f, TRUE)
                ELSE << >>
    IN years \o mons \o days \o time

\* one " <n> unit[s]" part of the verbose style, the value already
\* taken relative to the direction of the whole interval
VerbosePart(value, units) ==
    IF value = 0 THEN << >>
    ELSE <<" ">> \o IntStr(value) \o <<" ", IF value = 1 THEN units ELSE units \o "s">>

\* IntervalStyle postgres_verbose: the first nonzero field decides
\* whether the literal ends in "ago", and then every field is printed
\* negated
render_postgres_verbose(c) ==
    LET f == Fields(c)
        nums == <<f.year, f.mon, f.mday, f.hour, f.min>>
        nonzero == {i \in 1..5 : nums[i] # 0}
        first == IF nonzero = {} THEN 0 ELSE CHOOSE i \in nonzero : \A j \in nonzero : i <= j
        has_secs == f.sec # 0 \/ f.fsec # 0
        secs_minus == f.sec < 0 \/ (f.sec = 0 /\ f.fsec < 0)
        before == IF first # 0 THEN nums[first] < 0 ELSE has_secs /\ secs_minus
        rel(v) == IF before THEN 0 - v ELSE v
        secs == IF has_secs
                THEN <<" ">> \o (IF first # 0 /\ secs_minus # before THEN <<"-">> ELSE << >>)
                         \o SecondsStr(f.sec, f.fsec, FALSE)
                         \o <<" ", IF Abs(f.sec) # 1 \/ f.fsec # 0 THEN "secs" ELSE "sec">>
                ELSE << >>
    IN <<"@">> \o VerbosePart(rel(f.year), "year") \o VerbosePart(rel(f.mon), "mon")
           \o VerbosePart(rel(f.mday), "day") \o VerbosePart(rel(f.hour), "hour")
           \o VerbosePart(rel(f.min), "min") \o secs
           \o (IF first = 0 /\ ~has_secs THEN <<" ", "0">> ELSE << >>)
           \o (IF before THEN <<" ", "ago">> ELSE << >>)

\* one "<n><letter>" part of the ISO 8601 style
IsoPart(value, letter) == IF value = 0 THEN << >> ELSE IntStr(value) \o <<letter>>

\* IntervalStyle iso_8601
render_iso_8601(c) ==
    LET f == Fields(c)
        has_secs == f.sec # 0 \/ f.fsec # 0
        has_time == f.hour # 0 \/ f.min # 0 \/ has_secs
    IN IF f.year = 0 /\ f.mon = 0 /\ f.mday = 0 /\ ~has_time THEN <<"P", "T", "0", "S">>
       ELSE <<"P">> \o IsoPart(f.year, "Y") \o IsoPart(f.mon, "M") \o IsoPart(f.mday, "D")
                \o (IF has_time THEN <<"T">> ELSE << >>)
                \o IsoPart(f.hour, "H") \o IsoPart(f.min, "M")
                \o (IF has_secs
                    THEN (IF f.sec < 0 \/ f.fsec < 0 THEN <<"-">> ELSE << >>)
                             \o SecondsStr(f.sec, f.fsec, FALSE) \o <<"S">>
                    ELSE << >>)

IntervalStyles == {"sql_standard", "postgres", "postgres_verbose", "iso_8601"}

Render(style, c) ==
    CASE style = "sql_standard" -> render_sql_standard(c)
      [] style = "postgres" -> render_postgres(c)
      [] style = "postgres_verbose" -> render_postgres_verbose(c)
      [] style = "iso_8601" -> render_iso_8601(c)

\* -----------------------------------------------------------------
\* Calls of cast_interval: on what the server sends for an interval in
\* one of the four styles, and on other text.
\* -----------------------------------------------------------------

\* the largest multiple of its unit a field of an interval takes
MaxField == 1

\* the longest text that is not the rendering of an interval
MaxLen == 3

\* what state outside the call a function without state leaves alone
PureFrame == UNCHANGED <<api, defaults, typecasts, last, calls, types_vars, thread_vars, ext_vars>>

PureInit ==
    /\ api = "pg"
    /\ defaults = ClassDefaults
    /\ typecasts = [c \in Conns |-> EmptyDict]
    /\ last = NoCall
    /\ calls = 0
    /\ TypesIdle
    /\ ThreadsIdle
    /\ ExtIdle

NoComponents == <<0, 0, 0, 0, 0, 0, 0>>

Signs == {0 - 1, 0, 1}

\* microseconds printed with six digits and with one
Micros == {0 - 7, 0, 7, 500000}

\* (years, mons, days, hours, mins, secs, usecs) of every sign combination
ComponentTuples ==
    {<<y, 2 * mo, 3 * d, 4 * h, 5 * mi, 6 * s, us>> :
        y \in Signs, mo \in Signs, d \in (0 - MaxField)..MaxField,
        h \in (0 - MaxField)..MaxField, mi \in Signs, s \in Signs, us \in Micros}

LiteralChars == {"P", "@", "1", ":", "-", " ", "day", "ago", "x"}

RECURSIVE SeqsUpTo(_, _)
SeqsUpTo(S, n) ==
    IF n = 0 THEN {<< >>}
    ELSE LET shorter == SeqsUpTo(S, n - 1)
         IN shorter \cup {Append(t, c) : t \in {u \in shorter : Len(u) = n - 1}, c \in S}

IntervalArgs(styles) ==
    {[fn |-> "cast_interval", value |-> Render(style, c), style |-> style, components |-> c] :
        style \in styles, c \in ComponentTuples}
    \cup {[fn |-> "cast_interval", value |-> v, style |-> "none", components |-> NoComponents] :
        v \in SeqsUpTo(LiteralChars, MaxLen)}

IntervalInit ==
    /\ PureInit
    /\ args \in IntervalArgs(IntervalStyles)
    /\ result = NoResult

\* cast_interval(value) returns or raises
interval_cast ==
    /\ args.fn = "cast_interval"
    /\ result = NoResult
    /\ result' = cast_interval(args.value)
    /\ UNCHANGED args
    /\ PureFrame

IntervalNext == interval_cast

IntervalSpec == IntervalInit /\ [][IntervalNext]_vars

\* cast_interval has been applied to what the server sends for a
\* component tuple in some style
AfterRenderedInterval == args.fn = "cast_interval" /\ args.style # "none" /\ result # NoResult

\* C15: for every component tuple, the literals the server sends for it
\* in the four styles all decode to the same duration.
C15_AllStylesDecodeAlike ==
    AfterRenderedInterval =>
        \A style \in IntervalStyles :
            LET other == cast_interval(Render(style, args.components))
            IN other.kind = result.kind /\ other.value = result.value

\* cast_interval has decoded a literal of the verbose dialect
AfterVerboseInterval ==
    args.fn = "cast_interval" /\ result # NoResult /\ result.dialect = "postgres_verbose"

\* the components of a verbose literal, each with the sign of its own
\* prefix; the sign in front of the seconds also covers their fraction
OwnSigns(value) ==
    LET v == _re_interval_postgres_verbose(value)
    IN IF v.minus THEN <<v.m[1], v.m[2], v.m[3], v.m[4], v.m[5], 0 - v.m[6], 0 - v.m[7]>>
       ELSE v.m

\* C16 as stated: in the verbose dialect each component takes its sign
\* from its own prefix, and a trailing "ago" negates only the seconds and
\* the microseconds.
C16_AgoNegatesSecondsOnly ==
    AfterVerboseInterval =>
        LET own == OwnSigns(args.value)
        IN result.parts =
               IF _re_interval_postgres_verbose(args.value).ago
               THEN <<own[1], own[2], own[3], own[4], own[5], 0 - own[6], 0 - own[7]>>
               ELSE own

\* C16 amended: in the verbose dialect each component takes its sign
\* from its own prefix, and a trailing "ago" negates all seven
\* components.
C16_AgoNegatesEveryComponent ==
    AfterVerboseInterval =>
        LET own == OwnSigns(args.value)
        IN result.parts =
               IF _re_interval_postgres_verbose(args.value).ago
               THEN [i \in 1..7 |-> 0 - own[i]]
               ELSE own

\* a verbose literal ending in "ago" with days, a negative hour count and
\* seconds has been decoded
C16_Witness ==
    /\ AfterVerboseInterval
    /\ _re_interval_postgres_verbose(args.value).ago
    /\ result.parts[3] < 0
    /\ result.parts[4] > 0
    /\ result.parts[6] # 0

\* cast_interval has returned a duration
AfterParsedInterval ==
    args.fn = "cast_interval" /\ result # NoResult /\ result.kind = "timedelta"

\* C18: in every dialect and for every combination of signs, the day
\* count of the result is days + 365 * years + 30 * months of the decoded
\* components, and the hours, minutes, seconds and microseconds are
\* added to it unchanged.
C18_YearsAndMonthsFoldIntoDays ==
    AfterParsedInterval =>
        LET c == result.parts
            s == c[4] * 3600 + c[5] * 60 + c[6] + (c[7] \div 1000000)
        IN /\ result.value.days = c[3] + 365 * c[1] + 30 * c[2] + (s \div 86400)
           /\ result.value.seconds = s % 86400
           /\ result.value.microseconds = c[7] % 1000000

\* a literal with negative years and months and positive days has been
\* decoded in the SQL standard dialect
C18_Witness ==
    /\ AfterParsedInterval
    /\ result.dialect = "sql_standard"
    /\ result.parts[1] < 0
    /\ result.parts[2] < 0
    /\ result.parts[3] > 0
    /\ result.parts[4] # 0

AfterIntervalCast == args.fn = "cast_interval" /\ result # NoResult

DialectOrder == <<"iso_8601", "postgres_verbose", "postgres", "sql_standard">>

PatternOf(dialect, value) ==
    CASE dialect = "iso_8601" -> _re_interval_iso_8601(value)
      [] dialect = "postgres_verbose" -> _re_interval_postgres_verbose(value)
      [] dialect = "postgres" -> _re_interval_postgres(value)
      [] dialect = "sql_standard" -> _re_interval_sql_standard(value)

\* the dialect's pattern matches at the start of the literal; the two
\* patterns that also match the empty text count when they capture a group
MatchesStart(dialect, value) ==
    LET p == PatternOf(dialect, value)
    IN p.ok /\ (dialect \in {"postgres", "sql_standard"} => p.any)

\* the literal as a whole is an interval of the dialect
IsIntervalOf(dialect, value) ==
    MatchesStart(dialect, value) /\ PatternOf(dialect, value).end = Len(value) + 1

FirstMatching(value) ==
    LET matching == {i \in 1..4 : MatchesStart(DialectOrder[i], value)}
    IN IF matching = {} THEN "none"
       ELSE DialectOrder[CHOOSE i \in matching : \A j \in matching : i <= j]

\* C17 as stated: the dialects are tried in the order ISO 8601, postgres
\* verbose, postgres short, SQL standard and the first that matches
\* decodes the literal; a literal that is not an interval in any of the
\* four dialects is rejected with an error.
C17_NonIntervalIsRejected ==
    AfterIntervalCast =>
        /\ result.dialect = FirstMatching(args.value)
        /\ (\A i \in 1..4 : ~IsIntervalOf(DialectOrder[i], args.value))
               => result.kind = "ValueError"

\* =================================================================
\* cast_record(value, cast): the record parser of the C extension.  A
\* record literal is a sequence of characters; a cast is None, one
\* function for all fields, or a list of functions, one per field.
\* =================================================================

\* the longest record literal after its opening parenthesis
MaxBody == 4

\* the longest list of casts
MaxCasts == 2

NullField == [kind |-> "None", text |-> << >>]
StrField(text) == [kind |-> "str", text |-> text]
IntField(text) == [kind |-> "int", text |-> text]
BadField == [kind |-> "ValueError", text |-> << >>]

RecordError == [kind |-> "ValueError", fields |-> << >>]
RecordTuple(fields) == [kind |-> "tuple", fields |-> fields]

\* an unquoted empty field is NULL, a quoted one is a string
RecordField(cur, quoted) == IF ~quoted /\ cur = << >> THEN NullField ELSE StrField(cur)

\* the fields of the literal from position i on: fields are the finished
\* ones, cur the text of the current one, quoted whether a quote was seen
\* in it, inq whether the position is inside quotes
RECURSIVE record_fields(_, _, _, _, _, _)
record_fields(s, i, fields, cur, quoted, inq) ==
    IF i > Len(s) THEN RecordError
    ELSE IF inq
    THEN IF s[i] = "\""
         THEN IF Ch(s, i + 1) = "\""
              THEN record_fields(s, i + 2, fields, Append(cur, "\""), TRUE, TRUE)
              ELSE record_fields(s, i + 1, fields, cur, TRUE, FALSE)
         ELSE record_fields(s, i + 1, fields, Append(cur, s[i]), TRUE, TRUE)
    ELSE IF s[i] = "\"" THEN record_fields(s, i + 1, fields, cur, TRUE, TRUE)
    ELSE IF s[i] = ","
    THEN record_fields(s, i + 1, Append(fields, RecordField(cur, quoted)), << >>, FALSE, FALSE)
    ELSE IF s[i] = ")"
    THEN IF i = Len(s) THEN RecordTuple(Append(fields, RecordField(cur, quoted)))
         ELSE RecordError
    ELSE record_fields(s, i + 1, fields, Append(cur, s[i]), quoted, FALSE)

\* one field through its cast; NULL is not cast
cast_field(f, cast) ==
    IF f.kind = "None" \/ cast \in {"None", "str"} THEN f
    ELSE IF f.text # << >> /\ \A i \in 1..Len(f.text) : f.text[i] \in Digits
    THEN IntField(f.text)
    ELSE BadField

CastAll(fields, casts) ==
    LET cast == [i \in 1..Len(fields) |-> cast_field(fields[i], casts[i])]
    IN IF \E i \in 1..Len(cast) : cast[i].kind = "ValueError" THEN RecordError
       ELSE RecordTuple(cast)

\* a cast list whose length is not checked against the fields
cast_record_unchecked(value, cast) ==
    LET parsed == IF Ch(value, 1) = "(" THEN record_fields(value, 2, << >>, << >>, FALSE, FALSE)
                  ELSE RecordError
        n == Len(parsed.fields)
    IN IF parsed.kind = "ValueError" THEN RecordError
       ELSE IF cast.kind = "one" THEN CastAll(parsed.fields, [i \in 1..n |-> cast.casts[1]])
       ELSE CastAll(parsed.fields,
                    [i \in 1..n |-> IF i <= Len(cast.casts) THEN cast.casts[i] ELSE "None"])

\* cast is [kind |-> "one", casts |-> <<f>>] for None or a single function
\* and [kind |-> "list", casts |-> <<f1, ..., fn>>] for a list or tuple; an
\* empty list stands for no cast
cast_record(value, cast) ==
    LET parsed == IF Ch(value, 1) = "(" THEN record_fields(value, 2, << >>, << >>, FALSE, FALSE)
                  ELSE RecordError
        n == Len(parsed.fields)
    IN IF parsed.kind = "ValueError" THEN RecordError
       ELSE IF cast.kind = "one" THEN CastAll(parsed.fields, [i \in 1..n |-> cast.casts[1]])
       ELSE IF cast.casts = << >> THEN CastAll(parsed.fields, [i \in 1..n |-> "None"])
       ELSE IF Len(cast.casts) # n THEN RecordError
       ELSE CastAll(parsed.fields, cast.casts)

RecordChars == {"(", ")", ",", "\"", "1", "a"}

CastFunctions == {"None", "str", "int"}

RecordCasts ==
    {[kind |-> "one", casts |-> <<f>>] : f \in CastFunctions}
    \cup {[kind |-> "list", casts |-> l] : l \in SeqsUpTo({"str", "int"}, MaxCasts)}

RecordArgs(chars) ==
    {[fn |-> "cast_record", value |-> <<"(">> \o body, cast |-> cast] :
        body \in SeqsUpTo(chars, MaxBody), cast \in RecordCasts}

RecordInit ==
    /\ PureInit
    /\ args \in RecordArgs(RecordChars)
    /\ result = NoResult

\* cast_record(value, cast) returns or raises
record_cast ==
    /\ args.fn = "cast_record"
    /\ result = NoResult
    /\ result' = cast_record(args.value, args.cast)
    /\ UNCHANGED args
    /\ PureFrame

RecordNext == record_cast

RecordSpec == RecordInit /\ [][RecordNext]_vars

\* cast_record has been called with a list of casts on a literal that
\* parses as a record; n is the number of its fields
AfterCastWithList ==
    /\ args.fn = "cast_record"
    /\ result # NoResult
    /\ args.cast.kind = "list"
    /\ cast_record(args.value, [kind |-> "one", casts |-> <<"None">>]).kind = "tuple"

FieldCount == Len(cast_record(args.value, [kind |-> "one", casts |-> <<"None">>]).fields)

\* C19 as stated: with a cast list, cast_record fails whenever the
\* number of parsed fields differs from the length of the list, the empty
\* list included.
C19_MismatchFails ==
    AfterCastWithList /\ FieldCount # Len(args.cast.casts) => result.kind = "ValueError"

\* C19 amended: with a nonempty cast list, cast_record fails whenever the
\* number of parsed fields differs from the length of the list; the empty
\* list is taken as no cast and the fields are returned uncast.
C19_NonemptyMismatchFails ==
    AfterCastWithList =>
        /\ args.cast.casts # << >> /\ FieldCount # Len(args.cast.casts)
               => result.kind = "ValueError"
        /\ args.cast.casts = << >>
               => result = cast_record(args.value, [kind |-> "one", casts |-> <<"None">>])

\* a record of two fields has been cast with a list of one cast that
\* suits its first field, and rejected
C19_Witness ==
    /\ AfterCastWithList
    /\ FieldCount = 2
    /\ args.cast.casts = <<"str">>
    /\ result.kind = "ValueError"

\* =================================================================
\* Adapter._adapt_record(v, typ): a tuple formatted as a record literal.
\* A value is None, a string or an integer; typ is given by the simple
\* types of the attributes of the composite type, in their order.
\* =================================================================

\* the longest tuple and the largest number of attributes
MaxTuple == 2

PyNone == [kind |-> "None", text |-> << >>, num |-> 0]
PyStr(text) == [kind |-> "str", text |-> text, num |-> 0]
PyInt(n) == [kind |-> "int", text |-> << >>, num |-> n]

\* not v
Falsy(v) == v = PyNone \/ v = PyStr(<< >>) \/ v = PyInt(0)

\* Adapter._adapt_num: if not v and v != 0: return None
_adapt_num(v) == IF Falsy(v) /\ v # PyInt(0) THEN PyNone ELSE v

\* Adapter.adapt(value, typ) for the simple types text and int
adapt(value, typ) ==
    IF value = PyNone THEN value
    ELSE IF typ = "text" THEN value
    ELSE _adapt_num(value)

\* str(v)
PyToStr(v) == IF v.kind = "int" THEN IntStr(v.num) ELSE v.text

\* _re_record_escape.sub(r'\\\1', v)
RECURSIVE record_escape(_)
record_escape(t) ==
    IF t = << >> THEN << >>
    ELSE (IF Head(t) \in {"\"", "\\"} THEN <<"\\", Head(t)>> ELSE <<Head(t)>>)
             \o record_escape(Tail(t))

\* _re_record_quote.search(v)
record_quote(t) == \E i \in 1..Len(t) : t[i] \in {"(", ",", "\"", "\\"}

\* None rendered like the empty string
record_item_null_quoted(v, t) ==
    LET a == adapt(v, t)
    IN IF Falsy(a) THEN <<"\"", "\"">>
       ELSE IF record_quote(PyToStr(a)) THEN <<"\"">> \o record_escape(PyToStr(a)) \o <<"\"">>
       ELSE PyToStr(a)

\* the body of the loop of _adapt_record: one item of the literal
record_item(v, t) ==
    LET a == adapt(v, t)
    IN IF a = PyNone THEN << >>
       ELSE IF Falsy(a) THEN <<"\"", "\"">>
       ELSE IF record_quote(PyToStr(a)) THEN <<"\"">> \o record_escape(PyToStr(a)) \o <<"\"">>
       ELSE PyToStr(a)

\* ','.join(value)
RECURSIVE Join(_)
Join(items) ==
    IF items = << >> THEN << >>
    ELSE IF Len(items) = 1 THEN items[1]
    ELSE items[1] \o <<",">> \o Join(Tail(items))

_adapt_record(v, typ) ==
    IF Len(typ) # Len(v) THEN [kind |-> "TypeError", text |-> << >>]
    ELSE [kind |-> "str",
          text |-> <<"(">> \o Join([i \in 1..Len(v) |-> record_item(v[i], typ[i])]) \o <<")">>]

TupleValues ==
    {PyNone, PyInt(0), PyInt(1)}
    \cup {PyStr(t) : t \in {<< >>, <<"a">>, <<",">>, <<"\"">>, <<"a", "(">>}}

AdaptArgs(values) ==
    {[fn |-> "_adapt_record", v |-> v, typ |-> typ] :
        v \in SeqsUpTo(values, MaxTuple), typ \in SeqsUpTo({"text", "int"}, MaxTuple)}

AdaptInit ==
    /\ PureInit
    /\ args \in AdaptArgs(TupleValues)
    /\ result = NoResult

\* _adapt_record(v, typ) returns or raises
adapt_record ==
    /\ args.fn = "_adapt_record"
    /\ result = NoResult
    /\ result' = _adapt_record(args.v, args.typ)
    /\ UNCHANGED args
    /\ PureFrame

AdaptNext == adapt_record

AdaptSpec == AdaptInit /\ [][AdaptNext]_vars

AfterAdaptRecord == args.fn = "_adapt_record" /\ result # NoResult

\* the items of a record literal without its parentheses: the text
\* between the commas that are outside quotes
RECURSIVE LiteralItems(_, _, _, _, _)
LiteralItems(s, i, items, cur, inq) ==
    IF i > Len(s) THEN Append(items, cur)
    ELSE IF inq /\ s[i] = "\\"
    THEN LiteralItems(s, i + 2, items, cur \o <<s[i], Ch(s, i + 1)>>, TRUE)
    ELSE IF s[i] = "\"" THEN LiteralItems(s, i + 1, items, Append(cur, s[i]), ~inq)
    ELSE IF s[i] = "," /\ ~inq THEN LiteralItems(s, i + 1, Append(items, cur), << >>, FALSE)
    ELSE LiteralItems(s, i + 1, items, Append(cur, s[i]), inq)

\* the items of the literal returned
ResultItems == LiteralItems(SubSeq(result.text, 2, Len(result.text) - 1), 1, << >>, << >>, FALSE)

\* the literal returned is parenthesised and has one item per field
WellFormedRecord ==
    /\ result.kind = "str"
    /\ Len(result.text) >= 2
    /\ result.text[1] = "("
    /\ result.text[Len(result.text)] = ")"
    /\ Len(args.v) > 0 => Len(ResultItems) = Len(args.v)

\* C20 as stated: every field that is None is rendered as an empty
\* unquoted position and every field that is the empty string as "", and
\* a tuple whose length differs from the number of attributes of the type
\* is rejected with an error.
C20_NoneAndEmptyStringDiffer ==
    AfterAdaptRecord =>
        IF Len(args.v) # Len(args.typ) THEN result.kind = "TypeError"
        ELSE /\ WellFormedRecord
             /\ \A i \in 1..Len(args.v) :
                    /\ args.v[i] = PyNone => ResultItems[i] = << >>
                    /\ args.v[i] = PyStr(<< >>) => ResultItems[i] = <<"\"", "\"">>

\* C20 amended: every field that is None is rendered as an empty
\* unquoted position, every empty string in a text field as "", and an
\* empty string in a numeric field as an empty position, like None; a
\* tuple of the wrong length is rejected with an error.
C20_NoneAndEmptyTextDiffer ==
    AfterAdaptRecord =>
        IF Len(args.v) # Len(args.typ) THEN result.kind = "TypeError"
        ELSE /\ WellFormedRecord
             /\ \A i \in 1..Len(args.v) :
                    /\ args.v[i] = PyNone => ResultItems[i] = << >>
                    /\ args.v[i] = PyStr(<< >>) /\ args.typ[i] = "text"
                           => ResultItems[i] = <<"\"", "\"">>
                    /\ args.v[i] = PyStr(<< >>) /\ args.typ[i] = "int"
                           => ResultItems[i] = << >>

\* a tuple of None and the empty string has been formatted for a type
\* of two text attributes
C20_Witness ==
    /\ AfterAdaptRecord
    /\ args.v = <<PyNone, PyStr(<< >>)>>
    /\ args.typ = <<"text", "text">>
    /\ result.text = <<"(", ",", "\"", "\"", ")">>

\* C29: _adapt_record renders a field as "" only when its value is the
\* empty string; a number, 0 included, is rendered as its own text.
C29_ZeroKeepsItsText ==
    AfterAdaptRecord /\ Len(args.v) = Len(args.typ) =>
        /\ WellFormedRecord
        /\ \A i \in 1..Len(args.v) :
               /\ ResultItems[i] = <<"\"", "\"">> => args.v[i] = PyStr(<< >>)
               /\ args.v[i].kind = "int" => ResultItems[i] = IntStr(args.v[i].num)

\* cast_interval has decoded what the server sends for an interval whose
\* seconds have a fraction
AfterFractionalInterval ==
    /\ AfterRenderedInterval
    /\ result.kind = "timedelta"
    /\ \E i \in 1..Len(args.value) : args.value[i] = "."

\* the position of the decimal point of the literal
PointOf(value) == CHOOSE i \in 1..Len(value) : value[i] = "."

RECURSIVE Pow10(_)
Pow10(k) == IF k = 0 THEN 1 ELSE 10 * Pow10(k - 1)

\* the microseconds that the digits after the decimal point denote
FractionMicros(value) ==
    LET i == PointOf(value)
        e == DigitsEnd(value, i + 1)
    IN IntOf(value, i + 1, e) * Pow10(6 - (e - (i + 1)))

\* C30: in every dialect, a fraction of k digits (1 <= k <= 6) of the
\* seconds is decoded as the microseconds it denotes, its digits scaled
\* by 10^(6-k).
C30_FractionIsScaled ==
    AfterFractionalInterval => Abs(result.parts[7]) = FractionMicros(args.value)

\* =================================================================
\* pgdb: the casts of one connection's type cache that need the connection
\* =================================================================

\* the names TypeCache.get_typecast, set_typecast and reset_typecast are
\* called with: a type whose default cast takes a connection, its array
\* type and a type whose default cast does not
ConnTypeNames == {<<"date">>, <<"_", "date">>, <<"int4">>}

ConnInit ==
    /\ api = "pgdb"
    /\ defaults = EmptyDict
    /\ typecasts = [c \in Conns |-> EmptyDict]
    /\ last = NoCall
    /\ calls = 0
    /\ TypesIdle
    /\ ThreadsIdle
    /\ ExtIdle
    /\ PureIdle

ConnNext ==
    \/ \E c \in Conns, typ \in ConnTypeNames : get_typecast(c, typ)
    \/ \E c \in Conns, typ \in ConnTypeNames, cast \in UserCasts \cup {None} :
          set_typecast(c, typ, cast)
    \/ \E c \in Conns, typ \in ConnTypeNames : reset_typecast(c, typ)
    \/ \E c \in Conns : reset_typecast_all(c)

ConnSpec == ConnInit /\ [][ConnNext]_vars

\* a call of the cast with the value alone fails: a function that takes a
\* connection is in it without one
RECURSIVE LacksConnection(_)
LacksConnection(cast) ==
    CASE cast.kind = "fn" -> cast.name \in NeedsConnectionNames
      [] cast.kind = "array" -> LacksConnection(cast.basecast)
      [] cast.kind = "record" -> \E i \in DOMAIN cast.casts : LacksConnection(cast.casts[i])
      [] OTHER -> FALSE

\* C25: after any sequence of get_typecast, set_typecast, reset_typecast(t)
\* and reset_typecast() on a connection's type cache, every cast the
\* registry of the connection holds can be called with the value alone: a
\* function that takes a connection is bound to the connection.
C25_HeldCastsAreBound ==
    \A c \in Conns : \A typ \in DOMAIN typecasts[c] :
        ~LacksConnection(typecasts[c][typ])

\* =================================================================
\* Resolving the cast of a composite type, one call of __missing__ at a
\* time (pg.Typecasts.__missing__, pgdb.LocalTypecasts.__missing__)
\* =================================================================

\* the calls of __missing__ the interpreter lets be open at the same time
MaxDepth == 3
\* the fields of one composite type
MaxFields == 2

CompositeNames == {<<"a">>, <<"b">>}

\* the types a field of a composite type can have
LayoutFieldTypes == {<<"int4">>, <<"a">>, <<"b">>, <<"_", "a">>}

\* the field lists the catalog can hold for the composite types
FieldLists(n) == UNION {[1..k -> LayoutFieldTypes] : k \in 1..n}
Layouts(n) == [CompositeNames -> FieldLists(n)]

\* the names self[typ] is asked for
ResolvedNames == {<<"int4">>, <<"a">>, <<"b">>, <<"_", "a">>}

\* the connection of the registry
ResolveConnection == "con1"

\* layout  get_attnames / get_fields: the fields of each composite type
\* cache   the registry (the dict itself)
\* stack   the open calls of __missing__: the type, the names self[...] is
\*         still to be asked for, and the casts it has got so far
\* outcome what the outermost self[typ] gave
ResolveInit ==
    /\ api \in {"pg", "pgdb"}
    /\ defaults = IF api = "pg" THEN ClassDefaults ELSE EmptyDict
    /\ typecasts = [c \in Conns |-> EmptyDict]
    /\ last = NoCall
    /\ calls = 0
    /\ TypesIdle
    /\ ThreadsIdle
    /\ PureIdle
    /\ db = NotUsed /\ cnx = NotUsed /\ handler = NotUsed
    /\ \E l \in Layouts(MaxFields) :
          resolving = [kind |-> "resolve", layout |-> l, cache |-> EmptyDict,
                       stack |-> << >>, outcome |-> NotUsed]

ResolveFrame ==
    UNCHANGED <<api, defaults, typecasts, last, calls, types_vars, thread_vars,
                pure_vars, db, cnx, handler>>

FieldsOf(typ) == IF typ \in CompositeNames THEN resolving.layout[typ] ELSE << >>

\* self[typ] up to the point where __missing__ asks for another name: the
\* cast it returns at once, or the call of __missing__ it leaves open
Enter(typ) ==
    LET dflt == DictGet(ClassDefaults, typ)
        bound == _add_connection(ResolveConnection, dflt)
        array == [open |-> TRUE, frame |-> [typ |-> typ, todo |-> <<Tail(typ)>>, casts |-> << >>]]
        fields == [open |-> TRUE, frame |-> [typ |-> typ, todo |-> FieldsOf(typ), casts |-> << >>]]
        default == [open |-> FALSE, cast |-> bound, cache |-> SetItem(resolving.cache, typ, bound)]
        nothing == [open |-> FALSE, cast |-> None, cache |-> resolving.cache]
        composite == IF FieldsOf(typ) # << >> THEN fields ELSE nothing
    IN IF typ \in DOMAIN resolving.cache
       THEN [open |-> FALSE, cast |-> resolving.cache[typ], cache |-> resolving.cache]
       ELSE IF api = "pg"
            THEN IF dflt # None THEN default
                 ELSE IF startswith_(typ) THEN array ELSE composite
            ELSE IF startswith_(typ) THEN array
                 ELSE IF dflt # None THEN default ELSE composite

\* the value v comes back to the call of __missing__ on top of the stack,
\* or to the caller of the outermost self[typ]
Deliver(stack, cache, v) ==
    IF stack = << >>
    THEN [resolving EXCEPT !.stack = << >>, !.cache = cache,
                           !.outcome = [kind |-> "returned", cast |-> v]]
    ELSE LET n == Len(stack)
             top == stack[n]
         IN [resolving EXCEPT
                !.stack = [stack EXCEPT ![n] = [top EXCEPT !.todo = Tail(top.todo),
                                                           !.casts = Append(top.casts, v)]],
                !.cache = cache]

\* the caller asks for self[typ]
resolve_call(typ) ==
    /\ resolving.kind = "resolve"
    /\ resolving.stack = << >>
    /\ LET e == Enter(typ) IN
       resolving' = IF e.open
                    THEN [resolving EXCEPT !.stack = <<e.frame>>, !.outcome = NotUsed]
                    ELSE Deliver(<< >>, e.cache, e.cast)
    /\ ResolveFrame

\* the open call on top asks for the next name: self[typ[1:]] or
\* self[field.type]
resolve_enter ==
    /\ resolving.kind = "resolve"
    /\ resolving.stack # << >>
    /\ LET top == resolving.stack[Len(resolving.stack)] IN
       /\ top.todo # << >>
       /\ LET e == Enter(Head(top.todo)) IN
          /\ e.open => Len(resolving.stack) < MaxDepth
          /\ resolving' = IF e.open
                          THEN [resolving EXCEPT !.stack = Append(resolving.stack, e.frame)]
                          ELSE Deliver(resolving.stack, e.cache, e.cast)
    /\ ResolveFrame

\* one call more than the interpreter allows: the error unwinds every open
\* call and nothing is stored
resolve_overflow ==
    /\ resolving.kind = "resolve"
    /\ Len(resolving.stack) = MaxDepth
    /\ LET top == resolving.stack[Len(resolving.stack)] IN
       /\ top.todo # << >>
       /\ Enter(Head(top.todo)).open
    /\ resolving' = [resolving EXCEPT !.stack = << >>,
                                      !.outcome = [kind |-> "RuntimeError"]]
    /\ ResolveFrame

\* the open call on top has all its casts: it builds its cast, stores it
\* (an array cast only over a base cast) and returns it
resolve_return ==
    /\ resolving.kind = "resolve"
    /\ resolving.stack # << >>
    /\ LET n == Len(resolving.stack)
           top == resolving.stack[n]
           cast == IF startswith_(top.typ)
                   THEN create_array_cast(top.casts[1])
                   ELSE create_record_cast(top.typ, top.casts)
           stored == IF startswith_(top.typ) /\ top.casts[1] = None
                     THEN resolving.cache
                     ELSE SetItem(resolving.cache, top.typ, cast)
       IN /\ top.todo = << >>
          /\ resolving' = Deliver(SubSeq(resolving.stack, 1, n - 1), stored, cast)
    /\ ResolveFrame

ResolveNext ==
    \/ \E typ \in ResolvedNames : resolve_call(typ)
    \/ resolve_enter
    \/ resolve_overflow
    \/ resolve_return

ResolveSpec == ResolveInit /\ [][ResolveNext]_vars

\* C24: resolving the cast of a composite type fails fast on a type that
\* refers to itself, directly or through an array of itself: no type is
\* entered again while its own field list is being resolved.
C24_ResolvingTypeIsNotEnteredAgain ==
    resolving.kind = "resolve" =>
        \A i, j \in DOMAIN resolving.stack :
            resolving.stack[i].typ = resolving.stack[j].typ => i = j

\* =================================================================
\* pgdb.Connection and its cursors: the transaction flag and what is sent
\* to the server
\* =================================================================

\* calls made on one connection in a run
MaxOps == 4
\* parameter sets in one executemany
MaxParams == 2

CursorIds == {"cur1", "cur2"}

\* the server's side of the connection: the transaction is "idle", "open"
\* or "aborted" (a statement failed in it); pending holds the statements of
\* the open transaction, committed the persistent ones
ServerIdle == [txn |-> "idle", pending |-> {}, committed |-> {}]

\* open     Connection._cnx is not None
\* tnx      Connection._tnx
\* closed   the cursors whose source object has been closed
\* sent     everything sent over the connection, in order
\* server   the server's side
\* raised   the exception the last call raised, "None" if it returned
\* inblock  the program is inside "with connection:"
\* current  the statements executed in the block so far
\* good     the statements executed in blocks that were left normally
\* bad      the statements executed in blocks that an exception ended
\* last     history: the last call and the state it found
\* nops     the number of calls made so far
NewConnection ==
    [kind |-> "cnx", open |-> TRUE, tnx |-> FALSE, closed |-> {}, sent |-> << >>,
     server |-> ServerIdle, raised |-> "None", inblock |-> FALSE, current |-> {},
     good |-> {}, bad |-> {}, last |-> [op |-> "none"], nops |-> 0]

\* what the server does with one message; a statement is known by its
\* place in the sequence of messages, and one sent in an aborted
\* transaction fails
ServerAfter(server, sql, id, ok) ==
    CASE sql = "BEGIN" -> [server EXCEPT !.txn = IF @ = "idle" THEN "open" ELSE @]
      [] sql = "COMMIT" ->
            [txn |-> "idle", pending |-> {},
             committed |-> IF server.txn = "open"
                           THEN server.committed \cup server.pending
                           ELSE server.committed]
      [] sql = "ROLLBACK" -> [server EXCEPT !.txn = "idle", !.pending = {}]
      [] OTHER ->
            IF server.txn = "idle"
            THEN IF ok THEN [server EXCEPT !.committed = @ \cup {id}] ELSE server
            ELSE IF ok /\ server.txn = "open"
                 THEN [server EXCEPT !.pending = @ \cup {id}]
                 ELSE [server EXCEPT !.txn = "aborted"]

\* source().execute(sql): the message goes out and the server acts on it
Send(c, sql, ok) ==
    LET id == Len(c.sent) + 1
        done == IF sql = "stmt" THEN ok /\ c.server.txn # "aborted" ELSE TRUE
    IN [c EXCEPT !.sent = Append(@, [sql |-> sql, ok |-> done]),
                 !.server = ServerAfter(@, sql, id, ok),
                 !.current = IF sql = "stmt" /\ done /\ c.inblock THEN @ \cup {id} ELSE @]

Raise(c, error) == [c EXCEPT !.raised = error]

\* Connection.commit
Connection_commit(c) ==
    IF c.open
    THEN IF c.tnx THEN Send([c EXCEPT !.tnx = FALSE], "COMMIT", TRUE) ELSE c
    ELSE Raise(c, "OperationalError")

\* Connection.rollback
Connection_rollback(c) ==
    IF c.open
    THEN IF c.tnx THEN Send([c EXCEPT !.tnx = FALSE], "ROLLBACK", TRUE) ELSE c
    ELSE Raise(c, "OperationalError")

\* Connection.close
Connection_close(c) ==
    IF c.open
    THEN [(IF c.tnx THEN Connection_rollback(c) ELSE c) EXCEPT !.open = FALSE]
    ELSE Raise(c, "OperationalError")

\* the loop of executemany: results[i] tells whether the server accepts
\* the statement built from the i-th parameter set
RECURSIVE RunAll(_, _, _)
RunAll(c, cur, results) ==
    IF results = << >> THEN c
    ELSE IF cur \in c.closed THEN Raise(c, "OperationalError")
    ELSE LET c1 == Send(c, "stmt", Head(results))
         IN IF c1.sent[Len(c1.sent)].ok
            THEN RunAll(c1, cur, Tail(results))
            ELSE Raise(c1, "DatabaseError")

\* a faulty variant of executemany that begins a transaction for every
\* call; C28 tells it from the code's
Cursor_executemany_always_begin(c, cur, results) ==
    IF results = << >> THEN c
    ELSE IF ~c.open THEN Raise(c, "OperationalError")
    ELSE RunAll([Send(c, "BEGIN", TRUE) EXCEPT !.tnx = TRUE], cur, results)

\* Cursor.executemany
Cursor_executemany(c, cur, results) ==
    IF results = << >> THEN c
    ELSE IF ~c.tnx
         THEN IF ~c.open THEN Raise(c, "OperationalError")
              ELSE RunAll([Send(c, "BEGIN", TRUE) EXCEPT !.tnx = TRUE], cur, results)
         ELSE RunAll(c, cur, results)

\* Cursor.execute with parameters that are not a list of tuples
Cursor_execute(c, cur, ok) == Cursor_executemany(c, cur, <<ok>>)

\* a faulty variant of __exit__ that commits whatever ended the block;
\* C22 tells it from the code's
Connection_exit_commit(c, et) == Connection_commit(c)

\* Connection.__exit__(et, ev, tb)
Connection_exit(c, et) ==
    IF et = "None" THEN Connection_commit(c) ELSE Connection_rollback(c)

\* the outcomes of the statements of one executemany
ParamResults(n) == UNION {[1..k -> BOOLEAN] : k \in 0..n}

\* a call begins: no exception yet, and the history keeps what it found
Called(c, op, n) ==
    [c EXCEPT !.raised = "None", !.nops = @ + 1,
              !.last = [op |-> op, n |-> n, sent |-> c.sent, tnx |-> c.tnx, open |-> c.open]]

CnxFrame ==
    UNCHANGED <<api, defaults, typecasts, last, calls, types_vars, thread_vars,
                pure_vars, resolving, db, handler>>

CnxInit ==
    /\ api = "pgdb"
    /\ defaults = EmptyDict
    /\ typecasts = [c \in Conns |-> EmptyDict]
    /\ last = NoCall
    /\ calls = 0
    /\ TypesIdle
    /\ ThreadsIdle
    /\ PureIdle
    /\ resolving = NotUsed /\ db = NotUsed /\ handler = NotUsed
    /\ cnx = NewConnection

cursor_executemany(cur, results) ==
    /\ cnx.nops < MaxOps
    /\ cnx' = Cursor_executemany(Called(cnx, "executemany", Len(results)), cur, results)
    /\ CnxFrame

cursor_execute(cur, ok) ==
    /\ cnx.nops < MaxOps
    /\ cnx' = Cursor_execute(Called(cnx, "execute", 1), cur, ok)
    /\ CnxFrame

cursor_close(cur) ==
    /\ cnx.nops < MaxOps
    /\ cur \notin cnx.closed
    /\ cnx' = [Called(cnx, "cursor_close", 0) EXCEPT !.closed = @ \cup {cur}]
    /\ CnxFrame

connection_commit ==
    /\ cnx.nops < MaxOps
    /\ cnx' = Connection_commit(Called(cnx, "commit", 0))
    /\ CnxFrame

connection_rollback ==
    /\ cnx.nops < MaxOps
    /\ cnx' = Connection_rollback(Called(cnx, "rollback", 0))
    /\ CnxFrame

connection_close ==
    /\ cnx.nops < MaxOps
    /\ cnx' = Connection_close(Called(cnx, "close", 0))
    /\ CnxFrame

CnxNext ==
    \/ \E cur \in CursorIds, results \in ParamResults(MaxParams) :
          cursor_executemany(cur, results)
    \/ \E cur \in CursorIds, ok \in BOOLEAN : cursor_execute(cur, ok)
    \/ \E cur \in CursorIds : cursor_close(cur)
    \/ connection_commit
    \/ connection_rollback
    \/ connection_close

CnxSpec == CnxInit /\ [][CnxNext]_vars

\* ------------------------------------------------ properties, connection

\* the transaction the messages so far have left open: BEGIN opens it,
\* COMMIT and ROLLBACK end it
RECURSIVE OpenAfter(_)
OpenAfter(sent) ==
    IF sent = << >> THEN FALSE
    ELSE LET m == sent[Len(sent)].sql
         IN IF m = "BEGIN" THEN TRUE
            ELSE IF m \in {"COMMIT", "ROLLBACK"} THEN FALSE
            ELSE OpenAfter(SubSeq(sent, 1, Len(sent) - 1))

\* every message was sent in the right state: BEGIN with no transaction
\* open, everything else with one open
SentInOrder(sent) ==
    \A i \in DOMAIN sent :
        OpenAfter(SubSeq(sent, 1, i - 1)) = (sent[i].sql # "BEGIN")

\* the messages the last call sent
SentByLast == SubSeq(cnx.sent, Len(cnx.last.sent) + 1, Len(cnx.sent))

\* C28: for every sequence of execute, executemany, commit, rollback and
\* close on one connection and its cursors: BEGIN is sent exactly when a
\* statement is about to run while no transaction is open, the flag is true
\* exactly between a BEGIN and the next COMMIT or ROLLBACK, no BEGIN follows
\* a BEGIN and no COMMIT or ROLLBACK is sent without an open transaction, and
\* executemany with an empty parameter sequence sends nothing.
C28_BeginExactlyWhenNeeded ==
    cnx.kind = "cnx" =>
        /\ SentInOrder(cnx.sent)
        /\ cnx.tnx = OpenAfter(cnx.sent)
        /\ cnx.tnx = (cnx.server.txn # "idle")
        /\ ~cnx.open => ~cnx.tnx
        /\ cnx.last.op = "executemany" /\ cnx.last.n = 0 =>
               cnx.sent = cnx.last.sent /\ cnx.tnx = cnx.last.tnx
        /\ cnx.last.op \in {"executemany", "execute"} /\ cnx.last.n > 0 /\ cnx.last.open =>
               /\ cnx.tnx
               /\ (SentByLast # << >> /\ SentByLast[1].sql = "BEGIN") = ~cnx.last.tnx

\* a transaction is open, an execute call has run a statement in it
\* without a BEGIN, and another call has ended it
C28_Witness ==
    /\ cnx.kind = "cnx"
    /\ cnx.last.op \in {"commit", "rollback", "close"}
    /\ cnx.last.tnx
    /\ \E i \in DOMAIN cnx.sent : i > 1 /\ cnx.sent[i].sql = "stmt" /\ cnx.sent[i - 1].sql = "stmt"
    /\ Len(SentByLast) = 1

\* =================================================================
\* pgdb.Connection as a context manager: "with connection:" blocks
\* =================================================================

\* what ends a block: nothing, an error of the database, another exception
BlockEnds == {"None", "DatabaseError", "ValueError"}

\* Connection.__enter__
block_enter ==
    /\ cnx.nops < MaxOps
    /\ ~cnx.inblock
    /\ cnx' = [Called(cnx, "enter", 0) EXCEPT !.inblock = TRUE, !.current = {}]
    /\ CnxFrame

\* cursor.execute, inside a block or between blocks; inside a block an
\* exception leaves the block, so nothing runs after it
block_execute(cur, ok) ==
    /\ cnx.nops < MaxOps
    /\ cnx.inblock => cnx.raised = "None"
    /\ cnx' = Cursor_execute(Called(cnx, "execute", 1), cur, ok)
    /\ CnxFrame

\* the block is left, by its end or by an exception that reaches
\* Connection.__exit__: the one a statement raised, or one of the program
block_exit(et) ==
    /\ cnx.inblock
    /\ IF cnx.raised = "None" THEN et \in {"None", "ValueError"} ELSE et = cnx.raised
    /\ cnx' = [Connection_exit([cnx EXCEPT !.last = [op |-> "exit", n |-> 0, sent |-> cnx.sent,
                                                      tnx |-> cnx.tnx, open |-> cnx.open]], et)
                  EXCEPT !.inblock = FALSE,
                         !.current = {},
                         !.raised = et,
                         !.good = IF et = "None" THEN @ \cup cnx.current ELSE @,
                         !.bad = IF et = "None" THEN @ ELSE @ \cup cnx.current]
    /\ CnxFrame

BlockNext ==
    \/ block_enter
    \/ \E cur \in CursorIds, ok \in BOOLEAN : block_execute(cur, ok)
    \/ \E et \in BlockEnds : block_exit(et)

BlockSpec == CnxInit /\ [][BlockNext]_vars

MaxNotices == 3

\* the channels: the event and the stop event of the handler
EventNames == {"event", "stop_event"}
Payloads == {"", "x"}

\* the argument of the callback after a timeout
TimedOut == [event |-> "None"]

\* db         self.db: "db", or "None" after close()
\* connected  the connection self.db was created with is open
\* listening  self.listening
\* channels   the channels the server notifies this connection of
\* queue      the notifications that have arrived and getnotify() has not
\*            yet returned
\* poll       self.timeout == 0
\* pc         where the thread in __call__ is
\* cpc        where the thread in close() is
\* delivered  history: the arguments of the callback, in order
\* arrived    history: the notifications in the order of arrival
\* misuse     history: where the thread in __call__ was when it called a
\*            method of a closed or missing connection, "None" if it never did
\* notices    the number of notifications sent so far
NewHandler(poll) ==
    [kind |-> "handler", db |-> "db", connected |-> TRUE, listening |-> FALSE,
     channels |-> {}, queue |-> << >>, poll |-> poll, pc |-> "idle", cpc |-> "idle",
     delivered |-> << >>, arrived |-> << >>, misuse |-> "None", notices |-> 0]

\* self.db is a connection and it is open
Usable(h) == h.db = "db" /\ h.connected

\* a call on a closed or missing connection raises in the thread of __call__
Fail(h) == [h EXCEPT !.misuse = h.pc, !.pc = "raised"]

\* NotificationHandler.listen, on a usable connection
Handler_listen(h) ==
    IF ~h.listening THEN [h EXCEPT !.channels = EventNames, !.listening = TRUE] ELSE h

\* NotificationHandler.unlisten, on a usable connection
Handler_unlisten(h) ==
    IF h.listening THEN [h EXCEPT !.channels = {}, !.listening = FALSE] ELSE h

\* a faulty variant of the inner loop's body that goes on listening after
\* the stop event; C23 tells it from the code's
Handler_notice_no_stop(h, notice) ==
    [h EXCEPT !.delivered = Append(@, notice), !.pc = "inner"]

\* the body of the inner loop for one notification: unlisten on the stop
\* event, then the callback with pid, event and extra in arg_dict
Handler_notice(h, notice) ==
    [(IF notice.event = "stop_event" THEN Handler_unlisten(h) ELSE h)
        EXCEPT !.delivered = Append(@, notice), !.pc = "inner"]

HandlerFrame ==
    UNCHANGED <<api, defaults, typecasts, last, calls, types_vars, thread_vars,
                pure_vars, resolving, db, cnx>>

HandlerInit ==
    /\ api = "pg"
    /\ defaults = ClassDefaults
    /\ typecasts = [c \in Conns |-> EmptyDict]
    /\ last = NoCall
    /\ calls = 0
    /\ TypesIdle
    /\ ThreadsIdle
    /\ PureIdle
    /\ resolving = NotUsed /\ db = NotUsed /\ cnx = NotUsed
    /\ \E poll \in BOOLEAN : handler = NewHandler(poll)

\* another connection sends a notification; the server passes it on if
\* this connection listens to the channel
notify(event, extra) ==
    /\ handler.notices < MaxNotices
    /\ LET notice == [pid |-> 1, event |-> event, extra |-> extra] IN
       handler' = IF handler.connected /\ event \in handler.channels
                  THEN [handler EXCEPT !.notices = @ + 1,
                                       !.queue = Append(@, notice),
                                       !.arrived = Append(@, notice)]
                  ELSE [handler EXCEPT !.notices = @ + 1]
    /\ HandlerFrame

\* __call__ up to the loop: self.listen(), rlist = [self.db.fileno()]; a
\* handler that polls can be called again after it has returned
handler_call ==
    /\ handler.pc = "idle" \/ (handler.pc = "returned" /\ handler.poll /\ handler.listening)
    /\ handler' = IF Usable(handler)
                  THEN [Handler_listen(handler) EXCEPT !.pc = "outer"]
                  ELSE Fail(handler)
    /\ HandlerFrame

\* while self.listening: (the outer loop)
handler_outer ==
    /\ handler.pc = "outer"
    /\ handler' = [handler EXCEPT !.pc = IF ~handler.listening THEN "returned"
                                         ELSE IF handler.poll THEN "inner" ELSE "select"]
    /\ HandlerFrame

\* select.select(rlist, [], [], self.timeout) returns the connection as
\* readable
handler_select ==
    /\ handler.pc = "select"
    /\ handler.queue # << >> \/ ~handler.connected
    /\ handler' = IF handler.connected THEN [handler EXCEPT !.pc = "inner"] ELSE Fail(handler)
    /\ HandlerFrame

\* select times out: self.unlisten(), self.callback(None)
handler_timeout ==
    /\ handler.pc = "select"
    /\ handler.queue = << >>
    /\ handler.connected
    /\ handler' = IF Usable(handler)
                  THEN [Handler_unlisten(handler) EXCEPT !.delivered = Append(@, TimedOut),
                                                         !.pc = "outer"]
                  ELSE Fail(handler)
    /\ HandlerFrame

\* while self.listening: (the inner loop)
handler_inner ==
    /\ handler.pc = "inner"
    /\ handler' = [handler EXCEPT !.pc = IF handler.listening THEN "getnotify"
                                         ELSE IF handler.poll THEN "returned" ELSE "outer"]
    /\ HandlerFrame

\* notice = self.db.getnotify() and the rest of the inner loop's body
handler_getnotify ==
    /\ handler.pc = "getnotify"
    /\ handler' =
          IF ~Usable(handler) THEN Fail(handler)
          ELSE IF handler.queue = << >>
               THEN [handler EXCEPT !.pc = IF handler.poll THEN "returned" ELSE "outer"]
               ELSE Handler_notice([handler EXCEPT !.queue = Tail(@)], Head(handler.queue))
    /\ HandlerFrame

HandlerNext ==
    \/ \E event \in EventNames, extra \in Payloads : notify(event, extra)
    \/ handler_call
    \/ handler_outer
    \/ handler_select
    \/ handler_timeout
    \/ handler_inner
    \/ handler_getnotify

HandlerSpec == HandlerInit /\ [][HandlerNext]_vars

\* ------------------------------------------- close() from another thread

\* close() is called while the other thread is in the loop: if self.db:
close_check ==
    /\ handler.cpc = "idle"
    /\ handler.pc \in {"outer", "select", "inner", "getnotify"}
    /\ handler' = [handler EXCEPT !.cpc = IF handler.db = "db" THEN "unlisten" ELSE "done"]
    /\ HandlerFrame

\* self.unlisten()
close_unlisten ==
    /\ handler.cpc = "unlisten"
    /\ handler' = [Handler_unlisten(handler) EXCEPT !.cpc = "close"]
    /\ HandlerFrame

\* self.db.close()
close_db ==
    /\ handler.cpc = "close"
    /\ handler' = [handler EXCEPT !.connected = FALSE, !.queue = << >>, !.cpc = "none"]
    /\ HandlerFrame

\* self.db = None
close_none ==
    /\ handler.cpc = "none"
    /\ handler' = [handler EXCEPT !.db = "None", !.cpc = "done"]
    /\ HandlerFrame

CloseNext ==
    \/ HandlerNext
    \/ close_check
    \/ close_unlisten
    \/ close_db
    \/ close_none

CloseSpec == HandlerInit /\ [][CloseNext]_vars

\* ------------------------------------------------- properties, handler

\* the notifications among the arguments of the callback
RECURSIVE Notices(_)
Notices(delivered) ==
    IF delivered = << >> THEN << >>
    ELSE IF Head(delivered) = TimedOut THEN Notices(Tail(delivered))
    ELSE <<Head(delivered)>> \o Notices(Tail(delivered))

StopDelivered == \E i \in DOMAIN handler.delivered : handler.delivered[i].event = "stop_event"

C27_NoUseAfterClose ==
    handler.kind = "handler" => handler.misuse \notin {"select", "getnotify"}

\* =================================================================
\* pg.DB: the wrapper, the connection it wraps, and its type cache across
\* close() and reopen()
\* =================================================================

\* calls made on one DB object in a run
MaxDbCalls == 4
\* connections opened for one DB object in a run
MaxConnections == 3

\* the type names the type cache is asked for
DbTypeNames == {"int4", "circle"}

\* the attributes of the underlying connection reached through __getattr__
ConnectionAttributes == {"fileno", "escape_string"}

\* self.db is None
NoDb == 0

\* closeable  the DB object opened its connection itself (self._closeable)
\* db         self.db: the number of a connection, or NoDb for None
\* conns      the connections opened so far: open or closed, and whether
\*            the typecast hook of this DB object is installed on it
\* query      the connection DbTypes.query is a method of
\* cached     the keys of the type cache
\* last       history: the last call, the self.db it found, what it
\*            raised, and the connection a catalog query went over
\* ncalls     the number of calls made so far
NewDB(closeable) ==
    [kind |-> "db", closeable |-> closeable, db |-> 1,
     conns |-> << [open |-> TRUE, hook |-> TRUE] >>,
     query |-> 1, cached |-> {},
     last |-> [op |-> "none"], ncalls |-> 0]

\* the record of a call: what it was, what self.db was, what it raised
\* ("None" if it returned) and the connection its query went over
DbCalled(d, op, raised, over) ==
    [d EXCEPT !.ncalls = @ + 1,
              !.last = [op |-> op, db |-> d.db, raised |-> raised, over |-> over]]

\* a faulty variant of close() that returns silently on a closed DB; C21
\* tells it from the code's
DB_close_silent(d) ==
    IF d.closeable /\ d.db # NoDb
    THEN [DbCalled(d, "close", "None", NoDb) EXCEPT !.conns[d.db].open = FALSE, !.db = NoDb]
    ELSE DbCalled(d, "close", "None", NoDb)

\* DB.close
DB_close(d) ==
    IF d.closeable
    THEN IF d.db # NoDb
         THEN [DbCalled(d, "close", "None", NoDb) EXCEPT !.conns[d.db].open = FALSE, !.db = NoDb]
         ELSE DbCalled(d, "close", "InternalError", NoDb)
    ELSE DbCalled(d, "close", "None", NoDb)

\* DB.reset
DB_reset(d) ==
    IF d.db # NoDb
    THEN DbCalled(d, "reset", "None", d.db)
    ELSE DbCalled(d, "reset", "InternalError", NoDb)

\* DB.query
DB_query(d) ==
    IF d.db = NoDb
    THEN DbCalled(d, "query", "InternalError", NoDb)
    ELSE DbCalled(d, "query", "None", d.db)

\* DB.__getattr__
DB_getattr(d, name) ==
    IF d.db # NoDb
    THEN DbCalled(d, "getattr", "None", d.db)
    ELSE DbCalled(d, "getattr", "InternalError", NoDb)

\* DB.reopen: connect, close the old connection, self.db = db
DB_reopen(d) ==
    IF d.closeable
    THEN LET new == Len(d.conns) + 1
             opened == [d EXCEPT !.conns = Append(@, [open |-> TRUE, hook |-> FALSE])]
             closed == IF d.db # NoDb
                       THEN [opened EXCEPT !.conns[d.db].open = FALSE]
                       ELSE opened
         IN [DbCalled(closed, "reopen", "None", NoDb) EXCEPT !.db = new, !.last.db = d.db]
    ELSE DbCalled(d, "reopen", "None", NoDb)

\* DbTypes.__missing__ for a key that is not cached: self.query(...), a
\* method of the connection the cache was created with
DbTypes_lookup(d, key) ==
    IF key \in d.cached
    THEN DbCalled(d, "lookup", "None", NoDb)
    ELSE IF d.conns[d.query].open
         THEN [DbCalled(d, "lookup", "None", d.query) EXCEPT !.cached = @ \cup {key}]
         ELSE DbCalled(d, "lookup", "InternalError", d.query)

DbFrame ==
    UNCHANGED <<api, defaults, typecasts, last, calls, types_vars, thread_vars,
                pure_vars, resolving, cnx, handler>>

DbInit ==
    /\ api = "pg"
    /\ defaults = ClassDefaults
    /\ typecasts = [c \in Conns |-> EmptyDict]
    /\ last = NoCall
    /\ calls = 0
    /\ TypesIdle
    /\ ThreadsIdle
    /\ PureIdle
    /\ resolving = NotUsed /\ cnx = NotUsed /\ handler = NotUsed
    /\ \E closeable \in BOOLEAN : db = NewDB(closeable)

db_close ==
    /\ db.ncalls < MaxDbCalls
    /\ db' = DB_close(db)
    /\ DbFrame

db_reset ==
    /\ db.ncalls < MaxDbCalls
    /\ db' = DB_reset(db)
    /\ DbFrame

db_query ==
    /\ db.ncalls < MaxDbCalls
    /\ db' = DB_query(db)
    /\ DbFrame

db_getattr(name) ==
    /\ db.ncalls < MaxDbCalls
    /\ db' = DB_getattr(db, name)
    /\ DbFrame

db_reopen ==
    /\ db.ncalls < MaxDbCalls
    /\ Len(db.conns) < MaxConnections
    /\ db' = DB_reopen(db)
    /\ DbFrame

dbtypes_lookup(key) ==
    /\ db.ncalls < MaxDbCalls
    /\ db' = DbTypes_lookup(db, key)
    /\ DbFrame

DbNext ==
    \/ db_close
    \/ db_reset
    \/ db_query
    \/ \E name \in ConnectionAttributes : db_getattr(name)
    \/ db_reopen
    \/ \E key \in DbTypeNames : dbtypes_lookup(key)

DbSpec == DbInit /\ [][DbNext]_vars

\* ------------------------------------------------------ properties, DB

\* C21: for a DB object that opened its own connection, close() leaves the
\* wrapped connection None, and close(), reset(), query() and the access to
\* an attribute of the underlying connection raise InternalError whenever
\* they find it None.
C21_ClosedDbRaises ==
    db.kind = "db" /\ db.closeable =>
        /\ db.last.op = "close" => db.db = NoDb
        /\ db.last.op \in {"close", "reset", "query", "getattr"} /\ db.last.db = NoDb =>
               /\ db.last.raised = "InternalError"
               /\ db.db = NoDb
        /\ db.db = NoDb => \A i \in DOMAIN db.conns : ~db.conns[i].open

\* a call of reset(), query() or an attribute access on a DB object that
\* close() has closed
C21_Witness ==
    /\ db.kind = "db"
    /\ db.closeable
    /\ db.last.op \in {"reset", "query", "getattr"}
    /\ db.last.db = NoDb
    /\ db.last.raised = "InternalError"

\* C26: after reopen() has replaced the connection, a lookup of a type
\* that is not cached sends its catalog query over the connection the DB
\* object now wraps, and the typecast hook of the DB object is installed
\* on that connection.
C26_TypeCacheFollowsReopen ==
    db.kind = "db" /\ db.db # NoDb =>
        /\ db.conns[db.db].hook
        /\ db.last.op = "lookup" /\ db.last.over # NoDb => db.last.over = db.db

====
